---- MODULE Spec2Model ----
(***************************************************************************)
(* Identification core of minifigure_id: the sliding-window rate limiter   *)
(* (src/src/utils/rate_limiter.py), the vision client that is gated by it  *)
(* (src/src/core/lego_identifier.py) and the fusion of database matches    *)
(* with the vision result (src/src/core/database_identifier.py).           *)
(*                                                                         *)
(* Time is counted in whole seconds; time.time() is a non-decreasing clock.*)
(* Tasks are asyncio coroutines on one event loop: a task gives up the     *)
(* loop only at "await asyncio.sleep", so everything between two sleeps is *)
(* one step as far as the other tasks are concerned.                       *)
(***************************************************************************)
EXTENDS Integers, Sequences, FiniteSets, TLC

(***************************************************************************)
(* Configuration of AnthropicRateLimiter.__init__ (25000 / 50 / 60 in the  *)
(* source), scaled down so that the limits are reached within a few calls. *)
(***************************************************************************)
max_input_tokens_per_minute == 4
max_requests_per_minute == 2
window_seconds == 2

(* The clock stops at MaxTime; a deque holds at most MaxHistory records in *)
(* the specification that calls the limiter directly.                      *)
MaxTime == 6
MaxHistory == 3

(* Token counts a single call can report, and the estimates a check is     *)
(* asked about: up to one more than the whole budget.                      *)
InputTokenValues == {1, 3}
OutputTokenValues == {0, 1}
Estimates == 0 .. (max_input_tokens_per_minute + 1)

(* The estimates the calls of the model are made with.                     *)
CallerEstimates == {1, 3}

(* Two tasks run LegoIdentifier.identify_lego_items on one shared limiter.  *)
Callers == {1, 2}

VARIABLES
    now,                    \* time.time()
    token_usage_history,    \* deque of TokenUsage
    request_timestamps,     \* deque of float
    ret,                    \* value returned by the last direct call
    pc,                     \* per task: idle, sleeping, calling, done
    est,                    \* per task: total_estimated_tokens
    wait_time,              \* per task: wait_time of wait_for_capacity
    wake_at,                \* per task: when its asyncio.sleep is over
    sleeps,                 \* per task: suspensions during this request
    recorded,               \* per task: record_usage calls of this request
    raised,                 \* per task: the exception caught, or "none"
    message,                \* per task: <<>> or <<the response received>>
    result,                 \* per task: <<>> or <<the IdentificationResult>>
    fpc,                    \* the fused request: start, analysing, fallback, done
    db_matches,             \* its db_matches
    ai_result,              \* its ai_result: <<>> or <<the IdentificationResult>>
    ai_calls,               \* calls of ai_identifier.identify_lego_items it made
    fused                   \* <<>> or <<the IdentificationResult it returned>>

limiterVars == <<token_usage_history, request_timestamps>>
callerVars == <<pc, est, wait_time, wake_at, sleeps, recorded, raised, message, result>>
fusionVars == <<fpc, db_matches, ai_result, ai_calls, fused>>

vars == <<now, token_usage_history, request_timestamps, ret,
          pc, est, wait_time, wake_at, sleeps, recorded, raised, message, result,
          fpc, db_matches, ai_result, ai_calls, fused>>

----------------------------------------------------------------------------
(* Helpers *)

Max(a, b) == IF a >= b THEN a ELSE b
Min(a, b) == IF a <= b THEN a ELSE b

RECURSIVE SumInput(_)
SumInput(h) == IF h = <<>> THEN 0 ELSE Head(h).input_tokens + SumInput(Tail(h))

RECURSIVE SumOutput(_)
SumOutput(h) == IF h = <<>> THEN 0 ELSE Head(h).output_tokens + SumOutput(Tail(h))

(* float('inf') of calculate_wait_time: larger than every timestamp.       *)
Infinity == MaxTime + window_seconds + 2

----------------------------------------------------------------------------
(* AnthropicRateLimiter *)

TokenUsage(t, i, o) == [timestamp |-> t, input_tokens |-> i, output_tokens |-> o]

(* while self.token_usage_history and self.token_usage_history[0].timestamp < cutoff_time: popleft() *)
RECURSIVE PopOldUsage(_, _)
PopOldUsage(h, cutoff_time) ==
    IF h # <<>> /\ Head(h).timestamp < cutoff_time
    THEN PopOldUsage(Tail(h), cutoff_time)
    ELSE h

(* while self.request_timestamps and self.request_timestamps[0] < cutoff_time: popleft() *)
RECURSIVE PopOldRequests(_, _)
PopOldRequests(r, cutoff_time) ==
    IF r # <<>> /\ Head(r) < cutoff_time
    THEN PopOldRequests(Tail(r), cutoff_time)
    ELSE r

(* _cleanup_old_usage with "<=" for "<": a record is dropped one second   *)
(* early.                                                                  *)
cleanup_one_second_early(h, r, t) ==
    LET cutoff_time == t - window_seconds + 1
    IN  [token_usage_history |-> PopOldUsage(h, cutoff_time),
         request_timestamps |-> PopOldRequests(r, cutoff_time)]

(* _cleanup_old_usage with "if" for "while": at most one record is popped *)
(* from each deque.                                                        *)
cleanup_pops_once(h, r, t) ==
    LET cutoff_time == t - window_seconds
    IN  [token_usage_history |->
             IF h # <<>> /\ Head(h).timestamp < cutoff_time THEN Tail(h) ELSE h,
         request_timestamps |->
             IF r # <<>> /\ Head(r) < cutoff_time THEN Tail(r) ELSE r]

(* _cleanup_old_usage at time t, as the pair of deques it leaves.          *)
_cleanup_old_usage(h, r, t) ==
    LET cutoff_time == t - window_seconds
    IN  [token_usage_history |-> PopOldUsage(h, cutoff_time),
         request_timestamps |-> PopOldRequests(r, cutoff_time)]

_get_current_usage(h, r, t) ==
    LET c == _cleanup_old_usage(h, r, t)
    IN  [input_tokens |-> SumInput(c.token_usage_history),
         output_tokens |-> SumOutput(c.token_usage_history),
         requests |-> Len(c.request_timestamps)]

(* can_make_request with ">=" for ">" in the token check.                  *)
can_make_request_off_by_one(h, r, t, estimated_input_tokens) ==
    LET c == _cleanup_old_usage(h, r, t)
    IN  /\ SumInput(c.token_usage_history) + estimated_input_tokens
               < max_input_tokens_per_minute
        /\ Len(c.request_timestamps) < max_requests_per_minute

can_make_request(h, r, t, estimated_input_tokens) ==
    LET current_usage == _get_current_usage(h, r, t)
    IN  IF current_usage.input_tokens + estimated_input_tokens > max_input_tokens_per_minute
        THEN FALSE
        ELSE IF current_usage.requests >= max_requests_per_minute
        THEN FALSE
        ELSE TRUE

(* calculate_wait_time without the one-second buffer.                      *)
calculate_wait_time_no_buffer(h, r, t, estimated_input_tokens) ==
    LET c == _cleanup_old_usage(h, r, t)
        hh == c.token_usage_history
        rr == c.request_timestamps
    IN  IF can_make_request(hh, rr, t, estimated_input_tokens) THEN 0
        ELSE IF hh = <<>> /\ rr = <<>> THEN 0
        ELSE LET oldest_token_time == IF hh # <<>> THEN Head(hh).timestamp ELSE Infinity
                 oldest_request_time == IF rr # <<>> THEN Head(rr) ELSE Infinity
                 oldest_time == Min(oldest_token_time, oldest_request_time)
             IN  Max(0, (oldest_time + window_seconds) - t)

(* calculate_wait_time waiting for the newest record to expire instead of  *)
(* the oldest.                                                             *)
calculate_wait_time_newest(h, r, t, estimated_input_tokens) ==
    LET c == _cleanup_old_usage(h, r, t)
        hh == c.token_usage_history
        rr == c.request_timestamps
    IN  IF can_make_request(hh, rr, t, estimated_input_tokens) THEN 0
        ELSE IF hh = <<>> /\ rr = <<>> THEN 0
        ELSE LET newest_token_time == IF hh # <<>> THEN hh[Len(hh)].timestamp ELSE Infinity
                 newest_request_time == IF rr # <<>> THEN rr[Len(rr)] ELSE Infinity
                 newest_time == Min(newest_token_time, newest_request_time)
             IN  Max(0, (newest_time + window_seconds) - t + 1)

calculate_wait_time(h, r, t, estimated_input_tokens) ==
    LET c == _cleanup_old_usage(h, r, t)
        hh == c.token_usage_history
        rr == c.request_timestamps
    IN  IF can_make_request(hh, rr, t, estimated_input_tokens) THEN 0
        ELSE IF hh = <<>> /\ rr = <<>> THEN 0
        ELSE LET oldest_token_time == IF hh # <<>> THEN Head(hh).timestamp ELSE Infinity
                 oldest_request_time == IF rr # <<>> THEN Head(rr) ELSE Infinity
                 oldest_time == Min(oldest_token_time, oldest_request_time)
             IN  Max(0, (oldest_time + window_seconds) - t + 1)

(* record_usage appending the request timestamp only when tokens were     *)
(* reported.                                                               *)
record_usage_skips_empty(h, r, t, input_tokens, output_tokens) ==
    _cleanup_old_usage(Append(h, TokenUsage(t, input_tokens, output_tokens)),
                       IF input_tokens + output_tokens > 1 THEN Append(r, t) ELSE r, t)

(* record_usage at time t: append to both deques, then clean up.           *)
record_usage(h, r, t, input_tokens, output_tokens) ==
    _cleanup_old_usage(Append(h, TokenUsage(t, input_tokens, output_tokens)),
                       Append(r, t), t)

(* get_usage_stats without the max(0, ...) on what remains.                *)
get_usage_stats_unclamped(h, r, t) ==
    LET current_usage == _get_current_usage(h, r, t)
    IN  [current_input_tokens |-> current_usage.input_tokens,
         current_output_tokens |-> current_usage.output_tokens,
         current_requests |-> current_usage.requests,
         input_tokens_remaining |->
             max_input_tokens_per_minute - current_usage.input_tokens,
         requests_remaining |->
             max_requests_per_minute - current_usage.requests]

get_usage_stats(h, r, t) ==
    LET current_usage == _get_current_usage(h, r, t)
    IN  [current_input_tokens |-> current_usage.input_tokens,
         current_output_tokens |-> current_usage.output_tokens,
         current_requests |-> current_usage.requests,
         input_tokens_remaining |->
             Max(0, max_input_tokens_per_minute - current_usage.input_tokens),
         requests_remaining |->
             Max(0, max_requests_per_minute - current_usage.requests)]

(* Base token cost for image processing.                                   *)
base_tokens == 1500

(* estimate_image_tokens without the final min(..., 4000).                 *)
estimate_image_tokens_uncapped(image_size_bytes) ==
    base_tokens + (375 * Min(image_size_bytes, 5 * 1024 * 1024)) \div (512 * 1024)

(* estimate_image_tokens: int(base_tokens * (1 + size_factor * 0.5)) with   *)
(* size_factor = min(bytes / 2^20, 5.0), that is 1500 + 750 * bytes / 2^20  *)
(* rounded down.  Every intermediate value is a multiple of 2^-21 below     *)
(* 2^32, which a double holds exactly, so the integer arithmetic gives the  *)
(* same number as the floating-point arithmetic of the source.              *)
estimate_image_tokens(image_size_bytes) ==
    Min(base_tokens + (375 * Min(image_size_bytes, 5 * 1024 * 1024)) \div (512 * 1024),
        4000)

----------------------------------------------------------------------------
(* Strings are sequences of characters, so that str.lower(), slicing and   *)
(* str.find work on them as they do in the source.                         *)

UpperToLower ==
    ("A" :> "a") @@ ("B" :> "b") @@ ("C" :> "c") @@ ("D" :> "d") @@ ("E" :> "e") @@ ("F" :> "f") @@
    ("G" :> "g") @@ ("H" :> "h") @@ ("I" :> "i") @@ ("J" :> "j") @@ ("K" :> "k") @@ ("L" :> "l") @@
    ("M" :> "m") @@ ("N" :> "n") @@ ("O" :> "o") @@ ("P" :> "p") @@ ("Q" :> "q") @@ ("R" :> "r") @@
    ("S" :> "s") @@ ("T" :> "t") @@ ("U" :> "u") @@ ("V" :> "v") @@ ("W" :> "w") @@ ("X" :> "x") @@
    ("Y" :> "y") @@ ("Z" :> "z")

LowerChar(ch) == IF ch \in DOMAIN UpperToLower THEN UpperToLower[ch] ELSE ch

(* str.lower() *)
lower(str) == [i \in 1 .. Len(str) |-> LowerChar(str[i])]

(* str.find(ch): index from 0 of the first occurrence, -1 when there is none *)
find(str, ch) ==
    IF \E i \in 1 .. Len(str) : str[i] = ch
    THEN (CHOOSE i \in 1 .. Len(str) :
              str[i] = ch /\ \A j \in 1 .. (i - 1) : str[j] # ch) - 1
    ELSE -1

(* str.rfind(ch): index from 0 of the last occurrence, -1 when there is none *)
rfind(str, ch) ==
    IF \E i \in 1 .. Len(str) : str[i] = ch
    THEN (CHOOSE i \in 1 .. Len(str) :
              str[i] = ch /\ \A j \in (i + 1) .. Len(str) : str[j] # ch) - 1
    ELSE -1

(* str[a:b] for 0 <= a <= b *)
slice(str, a, b) == SubSeq(str, a + 1, Min(b, Len(str)))

s_minifigure == <<"m", "i", "n", "i", "f", "i", "g", "u", "r", "e">>
s_minifig == <<"m", "i", "n", "i", "f", "i", "g">>
s_figure == <<"f", "i", "g", "u", "r", "e">>
s_set == <<"s", "e", "t">>
s_part == <<"p", "a", "r", "t">>
s_parts == <<"p", "a", "r", "t", "s">>
s_piece == <<"p", "i", "e", "c", "e">>
s_pieces == <<"p", "i", "e", "c", "e", "s">>
s_new == <<"n", "e", "w">>
s_mint == <<"m", "i", "n", "t">>
s_used == <<"u", "s", "e", "d">>
s_used_complete == <<"u", "s", "e", "d", "_", "c", "o", "m", "p", "l", "e", "t", "e">>
s_complete == <<"c", "o", "m", "p", "l", "e", "t", "e">>
s_used_incomplete == <<"u", "s", "e", "d", "_", "i", "n", "c", "o", "m", "p", "l", "e", "t", "e">>
s_incomplete == <<"i", "n", "c", "o", "m", "p", "l", "e", "t", "e">>
s_damaged == <<"d", "a", "m", "a", "g", "e", "d">>
s_worn == <<"w", "o", "r", "n">>
s_MiniFig == <<"M", "i", "n", "i", "F", "i", "g">>
s_SET == <<"S", "E", "T">>
s_vehicle == <<"v", "e", "h", "i", "c", "l", "e">>
s_Mint == <<"M", "i", "n", "t">>
s_WORN == <<"W", "O", "R", "N">>
s_excellent == <<"e", "x", "c", "e", "l", "l", "e", "n", "t">>

(* A JSON key that is absent is <<>>, one that is present is <<value>>;    *)
(* JSON null is the value None.                                            *)
None == <<"<None>">>

(* dict.get(key, default) *)
get(field, default) == IF field = <<>> THEN default ELSE field[1]

(* mapping.get(key, default) for a mapping given as a set of <<key, value>> *)
lookup(mapping, key, default) ==
    IF \E p \in mapping : p[1] = key
    THEN (CHOOSE p \in mapping : p[1] = key)[2]
    ELSE default

----------------------------------------------------------------------------
(* LegoIdentifier.identify_lego_items: the response and its parsing.       *)

(* A computation inside the try block either returns a value or raises.    *)
Returned(v) == [exc |-> "none", val |-> <<v>>]
Raised(e) == [exc |-> e, val |-> <<>>]

(* Characters of a response text: braces, "m" for one complete member      *)
(* ("key": value, with its separators) of a JSON object, "x" for any other *)
(* character.                                                              *)
TextChars == {"{", "}", "m", "x"}

(* response_text[:500], with the limit scaled to the lengths of the texts. *)
DescriptionLimit == 2

(* What json.loads accepts among the strings cut from "{" to "}": one      *)
(* object whose members are "m" or nested objects; anything else (text     *)
(* between the braces, a second object after the first) is a               *)
(* JSONDecodeError.                                                        *)
IsJsonObject(str) ==
    LET depth(i) == Cardinality({j \in 1 .. i : str[j] = "{"})
                    - Cardinality({j \in 1 .. i : str[j] = "}"})
    IN  /\ Len(str) >= 2
        /\ str[1] = "{"
        /\ str[Len(str)] = "}"
        /\ \A i \in 1 .. Len(str) : str[i] \in {"{", "}", "m"}
        /\ \A i \in 1 .. (Len(str) - 1) : depth(i) >= 1
        /\ depth(Len(str)) = 0

(* json.loads(json_str), where data is what the members of the object hold *)
json_loads(json_str, data) ==
    IF IsJsonObject(json_str) THEN Returned(data) ELSE Raised("JSONDecodeError")

item_type_mapping ==
    { <<s_minifigure, s_minifigure>>, <<s_minifig, s_minifigure>>,
      <<s_figure, s_minifigure>>, <<s_set, s_set>>, <<s_part, s_part>>,
      <<s_parts, s_part>>, <<s_piece, s_part>>, <<s_pieces, s_part>> }

condition_mapping ==
    { <<s_new, s_new>>, <<s_mint, s_new>>, <<s_used, s_used_complete>>,
      <<s_used_complete, s_used_complete>>, <<s_complete, s_used_complete>>,
      <<s_used_incomplete, s_used_incomplete>>,
      <<s_incomplete, s_used_incomplete>>, <<s_damaged, s_damaged>>,
      <<s_worn, s_damaged>> }

(* LegoItem of src/models/schemas.py; every field but item_type and       *)
(* condition may be None.                                                  *)
LegoItem(item_number, name, item_type, condition, year_released, theme, category, pieces) ==
    [item_number |-> item_number, name |-> name, item_type |-> item_type,
     condition |-> condition, year_released |-> year_released, theme |-> theme,
     category |-> category, pieces |-> pieces]

(* item_data.get("item_type", "minifigure").lower() and the table lookup;  *)
(* None has no lower().                                                    *)
normalize_item_type(item_data) ==
    LET item_type_value == get(item_data.item_type, s_minifigure)
    IN  IF item_type_value = None THEN Raised("AttributeError")
        ELSE Returned(lookup(item_type_mapping, lower(item_type_value), s_minifigure))

normalize_condition(item_data) ==
    LET condition_value == get(item_data.condition, s_used_complete)
    IN  IF condition_value = None THEN Raised("AttributeError")
        ELSE Returned(lookup(condition_mapping, lower(condition_value), s_used_complete))

(* One pass of the loop over result_data["identified_items"].              *)
convert_item(item_data) ==
    LET item_type == normalize_item_type(item_data)
        condition == normalize_condition(item_data)
    IN  IF item_type.exc # "none" THEN item_type
        ELSE IF condition.exc # "none" THEN condition
        ELSE Returned(LegoItem(get(item_data.item_number, None),
                               get(item_data.name, None),
                               item_type.val[1],
                               condition.val[1],
                               get(item_data.year_released, None),
                               get(item_data.theme, None),
                               get(item_data.category, None),
                               get(item_data.pieces, None)))

RECURSIVE convert_items(_)
convert_items(items_data) ==
    IF items_data = <<>> THEN Returned(<<>>)
    ELSE LET item == convert_item(Head(items_data))
         IN  IF item.exc # "none" THEN item
             ELSE LET rest == convert_items(Tail(items_data))
                  IN  IF rest.exc # "none" THEN rest
                      ELSE Returned(<<item.val[1]>> \o rest.val[1])

(* IdentificationResult; confidence_score is in hundredths, description    *)
(* and condition_assessment are sequences of characters or longer pieces   *)
(* of text.                                                                *)
IdentificationResult(confidence_score, identified_items, description, condition_assessment) ==
    [confidence_score |-> confidence_score,
     identified_items |-> identified_items,
     description |-> description,
     condition_assessment |-> condition_assessment]

(* The else branch with the whole text kept as the description.           *)
fallback_result_whole_text(response_text) ==
    IdentificationResult(30, <<>>, response_text,
                         <<"Could not parse detailed assessment">>)

(* The else branch: "Fallback if JSON parsing fails".                      *)
fallback_result(response_text) ==
    IdentificationResult(30, <<>>, slice(response_text, 0, DescriptionLimit),
                         <<"Could not parse detailed assessment">>)

(* The except branch answering like the else branch.                      *)
error_result_as_fallback(e) ==
    IdentificationResult(30, <<>>, <<"Error during identification: ", e>>,
                         <<"Could not parse detailed assessment">>)

(* The except branch.                                                      *)
error_result(e) ==
    IdentificationResult(0, <<>>, <<"Error during identification: ", e>>,
                         <<"Could not assess condition due to error">>)

(* The if branch with an IdentificationResult that takes any               *)
(* confidence_score (no ge=0, le=1 on the field).                          *)
parsed_result_unvalidated(response_text, result_data) ==
    LET identified_items == convert_items(result_data.identified_items)
    IN  IF identified_items.exc # "none" THEN identified_items
        ELSE Returned(IdentificationResult(
                 get(result_data.confidence_score, 50),
                 identified_items.val[1],
                 get(result_data.description, slice(response_text, 0, DescriptionLimit)),
                 get(result_data.condition_assessment, <<"Assessment not available">>)))

(* The branch taken when the braces are found and the JSON decodes.        *)
parsed_result(response_text, result_data) ==
    LET identified_items == convert_items(result_data.identified_items)
        confidence_score == get(result_data.confidence_score, 50)
    IN  IF identified_items.exc # "none" THEN identified_items
        ELSE IF confidence_score < 0 \/ confidence_score > 100
        THEN Raised("ValidationError")
        ELSE Returned(IdentificationResult(
                 confidence_score,
                 identified_items.val[1],
                 get(result_data.description, slice(response_text, 0, DescriptionLimit)),
                 get(result_data.condition_assessment, <<"Assessment not available">>)))

(* "Parse response" to the end of the try block.                           *)
parse_response(response_text, data) ==
    LET json_start == find(response_text, "{")
        json_end == rfind(response_text, "}") + 1
    IN  IF json_start >= 0 /\ json_end > json_start
        THEN LET json_str == slice(response_text, json_start, json_end)
                 result_data == json_loads(json_str, data)
             IN  IF result_data.exc # "none" THEN result_data
                 ELSE parsed_result(response_text, result_data.val[1])
        ELSE Returned(fallback_result(response_text))

----------------------------------------------------------------------------
(* ImageMatcher: features and their similarity.  Scores are in hundredths. *)
(* A descriptor is a number, the distance of two descriptors (L2 for SIFT, *)
(* Hamming for ORB) the difference of the numbers; a histogram is a        *)
(* sequence of bin counts.  A key of a features dict holds <<>> when it is *)
(* missing or None and <<value>> otherwise.                                *)

(* Sum of a sequence of numbers.                                           *)
RECURSIVE sum(_)
sum(numbers) == IF numbers = <<>> THEN 0 ELSE Head(numbers) + sum(Tail(numbers))

Features(sift_descriptors, orb_descriptors, color_histogram) ==
    [sift_descriptors |-> sift_descriptors,
     orb_descriptors |-> orb_descriptors,
     color_histogram |-> color_histogram]

(* {} *)
NoFeatures == Features(<<>>, <<>>, <<>>)

(* An image file: whether it exists, whether cv2.imread decodes it, and    *)
(* what the detectors and the histogram give for it.                       *)
Image(exists, decodable, features) ==
    [exists |-> exists, decodable |-> decodable, features |-> features]

(* extract_features(image_path): {} when the image cannot be read, else    *)
(* the descriptors (None where no keypoint was found) and the histogram.   *)
extract_features(image) ==
    IF ~image.exists \/ ~image.decodable THEN NoFeatures ELSE image.features

distance(a, b) == IF a >= b THEN a - b ELSE b - a

(* The index in desc of the n-th nearest descriptor to q, the earlier of   *)
(* two at the same distance first.                                         *)
nearest(desc, q, n) ==
    CHOOSE j \in 1 .. Len(desc) :
        Cardinality({i \in 1 .. Len(desc) :
            \/ distance(q, desc[i]) < distance(q, desc[j])
            \/ distance(q, desc[i]) = distance(q, desc[j]) /\ i < j}) = n - 1

(* flann.knnMatch(desc1, desc2, k): for every descriptor of desc1 the      *)
(* distances to its k nearest in desc2 (fewer when desc2 is shorter).      *)
knnMatch(desc1, desc2, k) ==
    [i \in 1 .. Len(desc1) |->
        [n \in 1 .. Min(k, Len(desc2)) |->
            distance(desc1[i], desc2[nearest(desc2, desc1[i], n)])]]

(* _match_sift_features with the two distances of the ratio test taken the *)
(* other way round.                                                        *)
match_sift_features_swapped(desc1, desc2) ==
    LET matches == knnMatch(desc1, desc2, 2)
        good_matches == {i \in 1 .. Len(matches) :
                            /\ Len(matches[i]) = 2
                            /\ 10 * matches[i][2] < 7 * matches[i][1]}
    IN  IF Len(matches) > 0
        THEN (100 * Cardinality(good_matches)) \div Len(matches)
        ELSE 0

(* _match_sift_features(desc1, desc2): Lowe's ratio test, m.distance <     *)
(* 0.7 * n.distance.                                                       *)
_match_sift_features(desc1, desc2) ==
    LET matches == knnMatch(desc1, desc2, 2)
        good_matches == {i \in 1 .. Len(matches) :
                            /\ Len(matches[i]) = 2
                            /\ 10 * matches[i][1] < 7 * matches[i][2]}
    IN  IF Len(matches) > 0
        THEN (100 * Cardinality(good_matches)) \div Len(matches)
        ELSE 0

(* bf.match(desc1, desc2) with crossCheck=True: the pairs (i, j) where j   *)
(* is the nearest to i in desc2 and i the nearest to j in desc1, as their  *)
(* distances.                                                              *)
bf_match(desc1, desc2) ==
    LET crossed == {i \in 1 .. Len(desc1) :
                       nearest(desc1, desc2[nearest(desc2, desc1[i], 1)], 1) = i}
    IN  [i \in crossed |-> distance(desc1[i], desc2[nearest(desc2, desc1[i], 1)])]

(* _match_orb_features(desc1, desc2) *)
_match_orb_features(desc1, desc2) ==
    LET matches == bf_match(desc1, desc2)
        good_matches == {i \in DOMAIN matches : matches[i] < 50}
    IN  IF Cardinality(DOMAIN matches) > 0
        THEN (100 * Cardinality(good_matches)) \div Cardinality(DOMAIN matches)
        ELSE 0

(* cv2.compareHist(hist1, hist2, cv2.HISTCMP_CORREL): the correlation      *)
(* coefficient of the bins, between -1 and 1; the histograms of the model  *)
(* are such that the root is a whole number.                               *)
compareHist(hist1, hist2) ==
    LET N == Len(hist1)
        dev(hist) == [i \in 1 .. N |-> N * hist[i] - sum(hist)]
        dot(x, y) == sum([i \in 1 .. N |-> x[i] * y[i]])
        squares == dot(dev(hist1), dev(hist1)) * dot(dev(hist2), dev(hist2))
        root == CHOOSE r \in 0 .. squares : r * r = squares
    IN  (100 * dot(dev(hist1), dev(hist2))) \div root

(* _match_color_histograms taking the correlation as it is.               *)
match_color_histograms_unclamped(hist1, hist2) == compareHist(hist1, hist2)

(* _match_color_histograms(hist1, hist2): max(0.0, correlation)            *)
_match_color_histograms(hist1, hist2) == Max(0, compareHist(hist1, hist2))

(* match_features dividing the sum by the weights of the descriptors that  *)
(* both have, so that the weights used add up to 1.                        *)
match_features_renormalized(query_features, database_features) ==
    LET has_sift == query_features.sift_descriptors # <<>>
                        /\ database_features.sift_descriptors # <<>>
        has_orb == query_features.orb_descriptors # <<>>
                        /\ database_features.orb_descriptors # <<>>
        has_color == query_features.color_histogram # <<>>
                        /\ database_features.color_histogram # <<>>
        weights == (IF has_sift THEN 40 ELSE 0) + (IF has_orb THEN 30 ELSE 0)
                       + (IF has_color THEN 30 ELSE 0)
        total ==
            (IF has_sift
             THEN _match_sift_features(query_features.sift_descriptors[1],
                                       database_features.sift_descriptors[1]) * 40
             ELSE 0)
            + (IF has_orb
               THEN _match_orb_features(query_features.orb_descriptors[1],
                                        database_features.orb_descriptors[1]) * 30
               ELSE 0)
            + (IF has_color
               THEN _match_color_histograms(query_features.color_histogram[1],
                                            database_features.color_histogram[1]) * 30
               ELSE 0)
    IN  IF weights = 0 THEN 0 ELSE total \div weights

(* match_features(query_features, database_features): the weighted sum     *)
(* over the descriptors that both have.                                    *)
match_features(query_features, database_features) ==
    LET sift_part ==
            IF query_features.sift_descriptors # <<>>
               /\ database_features.sift_descriptors # <<>>
            THEN (_match_sift_features(query_features.sift_descriptors[1],
                                       database_features.sift_descriptors[1]) * 40) \div 100
            ELSE 0
        orb_part ==
            IF query_features.orb_descriptors # <<>>
               /\ database_features.orb_descriptors # <<>>
            THEN (_match_orb_features(query_features.orb_descriptors[1],
                                      database_features.orb_descriptors[1]) * 30) \div 100
            ELSE 0
        color_part ==
            IF query_features.color_histogram # <<>>
               /\ database_features.color_histogram # <<>>
            THEN (_match_color_histograms(query_features.color_histogram[1],
                                          database_features.color_histogram[1]) * 30) \div 100
            ELSE 0
    IN  sift_part + orb_part + color_part

----------------------------------------------------------------------------
(* ImageMatcher.find_matches and DatabaseDrivenIdentifier._combine_results. *)

(* substring in text, both sequences of characters                         *)
In(substring, text) ==
    \E i \in 0 .. (Len(text) - Len(substring)) :
        SubSeq(text, i + 1, i + Len(substring)) = substring

(* _determine_match_type with ">" for ">=".                                *)
determine_match_type_strict(confidence) ==
    IF confidence > 80 THEN "exact"
    ELSE IF confidence > 60 THEN "similar"
    ELSE "partial"

_determine_match_type(confidence) ==
    IF confidence >= 80 THEN "exact"
    ELSE IF confidence >= 60 THEN "similar"
    ELSE "partial"

(* MatchResult of a row of the minifigures table; confidence is in         *)
(* hundredths.                                                             *)
MatchResult(minifig, similarity) ==
    [minifigure_id |-> minifig.id,
     item_number |-> minifig.item_number,
     name |-> minifig.name,
     theme |-> minifig.theme,
     confidence |-> similarity,
     match_type |-> _determine_match_type(similarity),
     image_path |-> minifig.image_path,
     year_released |-> minifig.year_released]

(* matches.sort(key=lambda x: x.confidence, reverse=True): a stable sort,  *)
(* so matches of equal confidence stay in the order of the rows.           *)
RECURSIVE sort_by_confidence(_)
sort_by_confidence(matches) ==
    IF matches = <<>> THEN <<>>
    ELSE LET sorted == sort_by_confidence(SubSeq(matches, 1, Len(matches) - 1))
             last == matches[Len(matches)]
             before == Cardinality({i \in 1 .. Len(sorted) :
                                       sorted[i].confidence >= last.confidence})
         IN  SubSeq(sorted, 1, before) \o <<last>>
             \o SubSeq(sorted, before + 1, Len(sorted))

(* _get_all_minifigures returning a row once for each of two parts of the  *)
(* minifigure, as a join with minifigure_parts would.                      *)
get_all_minifigures_per_part(table) ==
    LET rows == SelectSeq(table, LAMBDA row : row.image_path # <<>>)
    IN  [i \in 1 .. 2 * Len(rows) |->
            [id |-> rows[(i + 1) \div 2].id,
             item_number |-> rows[(i + 1) \div 2].item_number,
             name |-> rows[(i + 1) \div 2].name,
             theme |-> rows[(i + 1) \div 2].theme,
             year_released |-> rows[(i + 1) \div 2].year_released,
             image_path |-> rows[(i + 1) \div 2].image_path[1]]]

(* _get_all_minifigures: SELECT ... FROM minifigures WHERE image_path IS    *)
(* NOT NULL, one dict for each row.  In the table image_path is <<>> when   *)
(* NULL and <<path>> otherwise.                                            *)
_get_all_minifigures(table) ==
    LET rows == SelectSeq(table, LAMBDA row : row.image_path # <<>>)
    IN  [i \in 1 .. Len(rows) |->
            [id |-> rows[i].id,
             item_number |-> rows[i].item_number,
             name |-> rows[i].name,
             theme |-> rows[i].theme,
             year_released |-> rows[i].year_released,
             image_path |-> rows[i].image_path[1]]]

(* The loop of find_matches with "break" for "continue": it stops at the   *)
(* first row whose image cannot be used.                                   *)
RECURSIVE matches_until_unreadable(_, _, _)
matches_until_unreadable(query_features, minifigures, files) ==
    IF minifigures = <<>> THEN <<>>
    ELSE LET minifig == Head(minifigures)
         IN  IF minifig.image_path = "" \/ ~files[minifig.image_path].exists
             THEN <<>>
             ELSE LET db_features == extract_features(files[minifig.image_path])
                      similarity == match_features(query_features, db_features)
                      rest == matches_until_unreadable(query_features, Tail(minifigures), files)
                  IN  IF db_features = NoFeatures THEN <<>>
                      ELSE IF similarity > 30
                      THEN <<MatchResult(minifig, similarity)>> \o rest
                      ELSE rest

(* The loop of find_matches over the rows; files is the file system, from  *)
(* paths to image files.                                                   *)
RECURSIVE matches_of(_, _, _)
matches_of(query_features, minifigures, files) ==
    IF minifigures = <<>> THEN <<>>
    ELSE LET minifig == Head(minifigures)
             rest == matches_of(query_features, Tail(minifigures), files)
         IN  IF minifig.image_path = "" \/ ~files[minifig.image_path].exists
             THEN rest
             ELSE LET db_features == extract_features(files[minifig.image_path])
                      similarity == match_features(query_features, db_features)
                  IN  IF db_features = NoFeatures THEN rest
                      ELSE IF similarity > 30
                      THEN <<MatchResult(minifig, similarity)>> \o rest
                      ELSE rest

(* find_matches without the [:limit].                                      *)
find_matches_untruncated(query_image_path, database, files, limit) ==
    LET query_features == extract_features(files[query_image_path])
    IN  IF query_features = NoFeatures THEN <<>>
        ELSE IF database.exc # "none" THEN <<>>
        ELSE sort_by_confidence(
                 matches_of(query_features, _get_all_minifigures(database.val[1]), files))

(* find_matches(query_image_path, limit).  database is the minifigures     *)
(* table, or what sqlite3 raises for it; whatever is raised inside the try *)
(* block makes the result [].                                              *)
find_matches(query_image_path, database, files, limit) ==
    LET query_features == extract_features(files[query_image_path])
    IN  IF query_features = NoFeatures THEN <<>>
        ELSE IF database.exc # "none" THEN <<>>
        ELSE LET matches == sort_by_confidence(
                     matches_of(query_features, _get_all_minifigures(database.val[1]), files))
             IN  SubSeq(matches, 1, Min(limit, Len(matches)))

(* _assess_condition_from_ai(ai_result, item_name), from the item the loop *)
(* has come to; item.name.lower() raises when the AI item has no name.     *)
RECURSIVE _assess_condition_from_ai(_, _)
_assess_condition_from_ai(identified_items, item_name) ==
    IF identified_items = <<>> THEN Returned(s_used_complete)
    ELSE LET item == Head(identified_items)
         IN  IF item.name = None THEN Raised("AttributeError")
             ELSE IF \/ In(lower(item_name), lower(item.name))
                     \/ In(lower(item.name), lower(item_name))
             THEN Returned(item.condition)
             ELSE _assess_condition_from_ai(Tail(identified_items), item_name)

(* The categories dict, in its order.                                      *)
categories ==
    <<<<<<"p", "o", "l", "i", "c", "e">>,
         <<<<"p", "o", "l", "i", "c", "e">>,
           <<"o", "f", "f", "i", "c", "e", "r">>,
           <<"c", "o", "p">>>>>>,
       <<<<"c", "o", "n", "s", "t", "r", "u", "c", "t", "i", "o", "n">>,
         <<<<"c", "o", "n", "s", "t", "r", "u", "c", "t", "i", "o", "n">>,
           <<"w", "o", "r", "k", "e", "r">>,
           <<"b", "u", "i", "l", "d", "e", "r">>>>>>,
       <<<<"c", "h", "e", "f">>,
         <<<<"c", "h", "e", "f">>,
           <<"c", "o", "o", "k">>,
           <<"b", "a", "k", "e", "r">>>>>>,
       <<<<"a", "s", "t", "r", "o", "n", "a", "u", "t">>,
         <<<<"a", "s", "t", "r", "o", "n", "a", "u", "t">>,
           <<"s", "p", "a", "c", "e">>,
           <<"p", "i", "l", "o", "t">>>>>>,
       <<<<"n", "i", "n", "j", "a">>,
         <<<<"n", "i", "n", "j", "a">>,
           <<"w", "a", "r", "r", "i", "o", "r">>,
           <<"f", "i", "g", "h", "t", "e", "r">>>>>>,
       <<<<"s", "u", "p", "e", "r", "h", "e", "r", "o">>,
         <<<<"s", "p", "i", "d", "e", "r">>,
           <<"b", "a", "t", "m", "a", "n">>,
           <<"s", "u", "p", "e", "r", "m", "a", "n">>,
           <<"h", "e", "r", "o">>>>>>,
       <<<<"c", "i", "v", "i", "l", "i", "a", "n">>,
         <<<<"c", "i", "v", "i", "l", "i", "a", "n">>,
           <<"p", "e", "r", "s", "o", "n">>,
           <<"f", "i", "g", "u", "r", "e">>>>>>,
       <<<<"w", "i", "z", "a", "r", "d">>,
         <<<<"w", "i", "z", "a", "r", "d">>,
           <<"m", "a", "g", "i", "c">>,
           <<"s", "o", "r", "c", "e", "r", "e", "r">>>>>>,
       <<<<"k", "n", "i", "g", "h", "t">>,
         <<<<"k", "n", "i", "g", "h", "t">>,
           <<"w", "a", "r", "r", "i", "o", "r">>,
           <<"s", "o", "l", "d", "i", "e", "r">>>>>>,
       <<<<"p", "i", "r", "a", "t", "e">>,
         <<<<"p", "i", "r", "a", "t", "e">>,
           <<"s", "a", "i", "l", "o", "r">>,
           <<"c", "a", "p", "t", "a", "i", "n">>>>>>>>

_extract_category_from_name(name) ==
    LET name_lower == lower(name)
        found == {i \in 1 .. Len(categories) :
                     \E k \in 1 .. Len(categories[i][2]) :
                         In(categories[i][2][k], name_lower)}
    IN  IF found = {} THEN None
        ELSE categories[CHOOSE i \in found : \A j \in found : i <= j][1]

(* The loop of _combine_results over db_matches: the LegoItems of the      *)
(* matches of confidence 0.4 and more, or the exception that ends it.      *)
RECURSIVE convert_matches(_, _)
convert_matches(matches, ai) ==
    IF matches = <<>> THEN Returned(<<>>)
    ELSE LET match == Head(matches)
         IN  IF match.confidence >= 40
             THEN LET condition == _assess_condition_from_ai(ai.identified_items, match.name)
                  IN  IF condition.exc # "none" THEN condition
                      ELSE LET rest == convert_matches(Tail(matches), ai)
                           IN  IF rest.exc # "none" THEN rest
                               ELSE Returned(
                                   <<LegoItem(match.item_number, match.name, s_minifigure,
                                              condition.val[1], match.year_released,
                                              match.theme,
                                              _extract_category_from_name(match.name),
                                              None)>> \o rest.val[1])
             ELSE convert_matches(Tail(matches), ai)

(* The themes dict of _create_enhanced_description: its keys, in the order *)
(* they were added.                                                        *)
RECURSIVE themes_of(_)
themes_of(matches) ==
    IF matches = <<>> THEN <<>>
    ELSE LET themes == themes_of(SubSeq(matches, 1, Len(matches) - 1))
             theme == matches[Len(matches)].theme
         IN  IF \E i \in 1 .. Len(themes) : themes[i] = theme THEN themes
             ELSE Append(themes, theme)

(* separator.join(parts) *)
RECURSIVE join(_, _)
join(separator, parts) ==
    IF parts = <<>> THEN <<>>
    ELSE IF Len(parts) = 1 THEN parts[1]
    ELSE parts[1] \o separator \o join(separator, Tail(parts))

(* _create_enhanced_description(db_matches, ai_result)                     *)
_create_enhanced_description(matches, ai) ==
    IF matches = <<>> THEN ai.description
    ELSE LET themes == themes_of(matches)
             collection ==
                 IF Len(themes) = 1
                 THEN <<"Collection of", " ", ToString(Len(matches)), " ">> \o themes[1]
                      \o <<" minifigures">>
                 ELSE <<"Collection of", " ", ToString(Len(matches)),
                        " minifigures from ", ToString(Len(themes)), " different themes">>
             top == SubSeq(matches, 1, Min(5, Len(matches)))
             good == SelectSeq(top, LAMBDA match : match.confidence >= 60)
             specific_items == [i \in 1 .. Len(good) |-> good[i].name]
             items_part ==
                 IF specific_items = <<>> THEN <<>>
                 ELSE <<<<"Identified items include: ">> \o join(<<", ">>, specific_items)>>
             context_part ==
                 IF /\ ai.description # <<>>
                    /\ \A i \in 1 .. Len(ai.description) : ai.description[i] # "Collection of"
                 THEN <<<<"Additional context: ">> \o ai.description>>
                 ELSE <<>>
         IN  join(<<". ">>, <<collection>> \o items_part \o context_part) \o <<".">>

(* _create_enhanced_condition_assessment(db_matches, ai_result)            *)
_create_enhanced_condition_assessment(matches, ai) ==
    LET ai_condition ==
            IF ai.condition_assessment = <<>>
            THEN <<"Condition assessment not available">>
            ELSE ai.condition_assessment
        high_confidence_matches == SelectSeq(matches, LAMBDA match : match.confidence >= 70)
    IN  IF matches # <<>> /\ high_confidence_matches # <<>>
        THEN ai_condition \o <<" Database matching found ",
                               ToString(Len(high_confidence_matches)),
                               " high-confidence matches.">>
        ELSE ai_condition

(* _combine_results(db_matches, ai_result, image_path); the scores of the  *)
(* model are such that every mean is a whole number of hundredths.         *)
(* IdentificationResult validates confidence_score (ge=0, le=1).           *)
_combine_results(matches, ai) ==
    LET converted == convert_matches(matches, ai)
    IN  IF converted.exc # "none" THEN converted
        ELSE LET kept == SelectSeq(matches, LAMBDA match : match.confidence >= 40)
                 use_ai == converted.val[1] = <<>> /\ ai.identified_items # <<>>
                 identified_items ==
                     IF use_ai THEN ai.identified_items ELSE converted.val[1]
                 confidence_scores ==
                     IF use_ai
                     THEN [i \in 1 .. Len(identified_items) |-> ai.confidence_score]
                     ELSE [i \in 1 .. Len(kept) |-> kept[i].confidence]
                 avg_confidence ==
                     IF confidence_scores # <<>>
                     THEN LET mean == sum(confidence_scores) \div Len(confidence_scores)
                          IN  IF matches # <<>> THEN Min(100, mean + 20) ELSE mean
                     ELSE 10
             IN  IF avg_confidence < 0 \/ avg_confidence > 100
                 THEN Raised("ValidationError")
                 ELSE Returned(IdentificationResult(
                          avg_confidence,
                          identified_items,
                          _create_enhanced_description(matches, ai),
                          _create_enhanced_condition_assessment(matches, ai)))

----------------------------------------------------------------------------
(* The limiter called directly, one call per step. *)

NoReturn == [op |-> "none"]

Cleaned == _cleanup_old_usage(token_usage_history, request_timestamps, now)

Tick ==
    /\ now < MaxTime
    /\ now' = now + 1
    /\ ret' = NoReturn
    /\ UNCHANGED <<token_usage_history, request_timestamps, callerVars, fusionVars>>

CanMakeRequest(e) ==
    /\ token_usage_history' = Cleaned.token_usage_history
    /\ request_timestamps' = Cleaned.request_timestamps
    /\ ret' = [op |-> "can_make_request", arg |-> e,
               val |-> can_make_request(token_usage_history, request_timestamps, now, e)]
    /\ UNCHANGED <<now, callerVars, fusionVars>>

CalculateWaitTime(e) ==
    /\ token_usage_history' = Cleaned.token_usage_history
    /\ request_timestamps' = Cleaned.request_timestamps
    /\ ret' = [op |-> "calculate_wait_time", arg |-> e,
               val |-> calculate_wait_time(token_usage_history, request_timestamps, now, e)]
    /\ UNCHANGED <<now, callerVars, fusionVars>>

RecordUsage(i, o) ==
    /\ Len(token_usage_history) < MaxHistory
    /\ LET after == record_usage(token_usage_history, request_timestamps, now, i, o)
       IN  /\ token_usage_history' = after.token_usage_history
           /\ request_timestamps' = after.request_timestamps
    /\ ret' = NoReturn
    /\ UNCHANGED <<now, callerVars, fusionVars>>

GetUsageStats ==
    /\ token_usage_history' = Cleaned.token_usage_history
    /\ request_timestamps' = Cleaned.request_timestamps
    /\ ret' = [op |-> "get_usage_stats", arg |-> 0,
               val |-> get_usage_stats(token_usage_history, request_timestamps, now)]
    /\ UNCHANGED <<now, callerVars, fusionVars>>

(* ImageMatcher.match_features called directly.  The matcher keeps nothing *)
(* from one call to the next, so a behaviour holds one call.               *)
MatchFeatures(query_features, database_features) ==
    /\ ret = NoReturn
    /\ ret' = [op |-> "match_features",
               arg |-> <<query_features, database_features>>,
               val |-> match_features(query_features, database_features)]
    /\ UNCHANGED <<now, token_usage_history, request_timestamps, callerVars, fusionVars>>

(* ImageMatcher.find_matches called directly.  The matcher keeps nothing   *)
(* from one call to the next, so a behaviour holds one call.               *)
CallFindMatches(query_image_path, database, files, limit) ==
    /\ ret = NoReturn
    /\ ret' = [op |-> "find_matches",
               arg |-> [query_image_path |-> query_image_path,
                        database |-> database,
                        limit |-> limit],
               val |-> find_matches(query_image_path, database, files, limit)]
    /\ UNCHANGED <<now, token_usage_history, request_timestamps, callerVars, fusionVars>>

(* AnthropicRateLimiter.estimate_image_tokens called directly.             *)
EstimateImageTokens(image_size_bytes) ==
    /\ ret' = [op |-> "estimate_image_tokens",
               arg |-> image_size_bytes,
               val |-> estimate_image_tokens(image_size_bytes)]
    /\ UNCHANGED <<now, token_usage_history, request_timestamps, callerVars, fusionVars>>

----------------------------------------------------------------------------
(* Tasks running LegoIdentifier.identify_lego_items.  A task holds the     *)
(* event loop from the moment wait_for_capacity returns until it has its   *)
(* result: client.messages.create is a blocking call, during which time    *)
(* passes and no other task runs.                                          *)

(* The call awaited on an asynchronous client instead: the loop is free    *)
(* for the other tasks while one of them is calling.                       *)
LoopFreeWhileCalling(c) == TRUE

LoopFree(c) == \A d \in Callers \ {c} : pc[d] # "calling"

(* wait_for_capacity computing the wait and logging it without sleeping.   *)
wait_for_capacity_without_sleep(c, e) ==
    LET wt == calculate_wait_time(token_usage_history, request_timestamps, now, e)
    IN  /\ token_usage_history' = Cleaned.token_usage_history
        /\ request_timestamps' = Cleaned.request_timestamps
        /\ wait_time' = [wait_time EXCEPT ![c] = wt]
        /\ pc' = [pc EXCEPT ![c] = "calling"]
        /\ UNCHANGED <<wake_at, sleeps>>

(* wait_for_capacity(e), up to the sleep it may start; when it does not    *)
(* sleep the task goes on to get_usage_stats and the call.                 *)
wait_for_capacity(c, e) ==
    LET wt == calculate_wait_time(token_usage_history, request_timestamps, now, e)
    IN  /\ token_usage_history' = Cleaned.token_usage_history
        /\ request_timestamps' = Cleaned.request_timestamps
        /\ wait_time' = [wait_time EXCEPT ![c] = wt]
        /\ IF wt > 0
           THEN /\ pc' = [pc EXCEPT ![c] = "sleeping"]
                /\ wake_at' = [wake_at EXCEPT ![c] = now + wt]
                /\ sleeps' = [sleeps EXCEPT ![c] = @ + 1]
           ELSE /\ pc' = [pc EXCEPT ![c] = "calling"]
                /\ UNCHANGED <<wake_at, sleeps>>

(* The try block from _encode_image to wait_for_capacity.                  *)
Begin(c, e, readable) ==
    /\ pc[c] = "idle"
    /\ LoopFree(c)
    /\ now + window_seconds + 1 <= MaxTime
    /\ IF readable
       THEN /\ est' = [est EXCEPT ![c] = e]
            /\ wait_for_capacity(c, e)
            /\ UNCHANGED <<raised, result>>
       ELSE /\ raised' = [raised EXCEPT ![c] = "FileNotFoundError"]
            /\ result' = [result EXCEPT ![c] = <<error_result("FileNotFoundError")>>]
            /\ pc' = [pc EXCEPT ![c] = "done"]
            /\ UNCHANGED <<token_usage_history, request_timestamps, est,
                           wait_time, wake_at, sleeps>>
    /\ UNCHANGED <<now, ret, recorded, message, fusionVars>>

(* wait_for_capacity as a retry loop: after the sleep the wait is computed *)
(* again, and the task sleeps again when it is still positive.             *)
WakeAndCheckAgain(c) ==
    /\ pc[c] = "sleeping"
    /\ now >= wake_at[c]
    /\ LoopFree(c)
    /\ wait_for_capacity(c, est[c])
    /\ UNCHANGED <<now, ret, est, recorded, raised, message, result, fusionVars>>

(* asyncio.sleep(wait_time) is over: wait_for_capacity returns, and the    *)
(* task goes on to get_usage_stats and the call.                           *)
Wake(c) ==
    /\ pc[c] = "sleeping"
    /\ now >= wake_at[c]
    /\ LoopFree(c)
    /\ pc' = [pc EXCEPT ![c] = "calling"]
    /\ token_usage_history' = Cleaned.token_usage_history
    /\ request_timestamps' = Cleaned.request_timestamps
    /\ UNCHANGED <<now, ret, est, wait_time, wake_at, sleeps, recorded, raised,
                   message, result, fusionVars>>

(* client.messages.create raises: the except branch, nothing recorded.     *)
ApiFail(c, e) ==
    /\ pc[c] = "calling"
    /\ raised' = [raised EXCEPT ![c] = e]
    /\ result' = [result EXCEPT ![c] = <<error_result(e)>>]
    /\ pc' = [pc EXCEPT ![c] = "done"]
    /\ UNCHANGED <<now, token_usage_history, request_timestamps, ret, est,
                   wait_time, wake_at, sleeps, recorded, message, fusionVars>>

(* client.messages.create returns: record_usage, then the parsing.         *)
ApiReply(c, input_tokens, output_tokens, response_text, data) ==
    /\ pc[c] = "calling"
    /\ LET after == record_usage(token_usage_history, request_timestamps, now,
                                 input_tokens, output_tokens)
           parsed == parse_response(response_text, data)
       IN  /\ token_usage_history' = after.token_usage_history
           /\ request_timestamps' = after.request_timestamps
           /\ recorded' = [recorded EXCEPT ![c] = @ + 1]
           /\ message' = [message EXCEPT ![c] =
                  <<[input_tokens |-> input_tokens, output_tokens |-> output_tokens,
                     text |-> response_text, data |-> data]>>]
           /\ raised' = [raised EXCEPT ![c] = parsed.exc]
           /\ result' = [result EXCEPT ![c] =
                  IF parsed.exc = "none" THEN parsed.val
                  ELSE <<error_result(parsed.exc)>>]
    /\ pc' = [pc EXCEPT ![c] = "done"]
    /\ UNCHANGED <<now, ret, est, wait_time, wake_at, sleeps, fusionVars>>

(* identify_lego_items has returned: its locals are gone.                  *)
Returns(c) ==
    /\ pc' = [pc EXCEPT ![c] = "idle"]
    /\ est' = [est EXCEPT ![c] = 0]
    /\ wait_time' = [wait_time EXCEPT ![c] = 0]
    /\ wake_at' = [wake_at EXCEPT ![c] = 0]
    /\ sleeps' = [sleeps EXCEPT ![c] = 0]
    /\ recorded' = [recorded EXCEPT ![c] = 0]
    /\ raised' = [raised EXCEPT ![c] = "none"]
    /\ message' = [message EXCEPT ![c] = <<>>]
    /\ result' = [result EXCEPT ![c] = <<>>]

(* The caller has the result; the task is free for the next image.         *)
Return(c) ==
    /\ pc[c] = "done"
    /\ Returns(c)
    /\ UNCHANGED <<now, token_usage_history, request_timestamps, ret, fusionVars>>

----------------------------------------------------------------------------
(* DatabaseDrivenIdentifier.identify_lego_items, run by task c: the        *)
(* matching, then the awaited LegoIdentifier.identify_lego_items (the      *)
(* actions above), then _combine_results, and in the except branch a       *)
(* second LegoIdentifier.identify_lego_items whose result is returned.     *)

(* Step 1 and the call that starts step 2.                                 *)
FindMatches(c, query_image_path, database, files, limit) ==
    /\ fpc = "start"
    /\ pc[c] = "idle"
    /\ db_matches' = find_matches(query_image_path, database, files, limit)
    /\ fpc' = "analysing"
    /\ ai_calls' = ai_calls + 1
    /\ UNCHANGED <<now, token_usage_history, request_timestamps, ret, callerVars,
                   ai_result, fused>>

(* Step 3 not waiting for step 2: when the AI call has not come back the   *)
(* matches are combined with an empty AI result.                           *)
CombineWithoutAwait(c) ==
    /\ fpc = "analysing"
    /\ pc[c] \in {"calling", "done"}
    /\ LET answer == IF pc[c] = "done" THEN result[c][1]
                     ELSE IdentificationResult(0, <<>>, <<>>, <<>>)
           combined_result == _combine_results(db_matches, answer)
       IN  /\ ai_result' = <<answer>>
           /\ IF combined_result.exc = "none"
              THEN /\ fused' = combined_result.val
                   /\ fpc' = "done"
                   /\ UNCHANGED ai_calls
              ELSE /\ fpc' = "fallback"
                   /\ ai_calls' = ai_calls + 1
                   /\ UNCHANGED fused
    /\ Returns(c)
    /\ UNCHANGED <<now, token_usage_history, request_timestamps, ret, db_matches>>

(* Step 2 is over; step 3 returns the combined result, or raises and the   *)
(* except branch calls the AI identifier again.                            *)
Combine(c) ==
    /\ fpc = "analysing"
    /\ pc[c] = "done"
    /\ ai_result' = result[c]
    /\ LET combined_result == _combine_results(db_matches, result[c][1])
       IN  IF combined_result.exc = "none"
           THEN /\ fused' = combined_result.val
                /\ fpc' = "done"
                /\ UNCHANGED ai_calls
           ELSE /\ fpc' = "fallback"
                /\ ai_calls' = ai_calls + 1
                /\ UNCHANGED fused
    /\ Returns(c)
    /\ UNCHANGED <<now, token_usage_history, request_timestamps, ret, db_matches>>

(* The except branch keeping the matches: the result of the second call is *)
(* returned with the description made from db_matches.                     *)
FallbackKeepsMatches(c) ==
    /\ fpc = "fallback"
    /\ pc[c] = "done"
    /\ fused' = <<IdentificationResult(
                     result[c][1].confidence_score,
                     result[c][1].identified_items,
                     _create_enhanced_description(db_matches, result[c][1]),
                     result[c][1].condition_assessment)>>
    /\ fpc' = "done"
    /\ Returns(c)
    /\ UNCHANGED <<now, token_usage_history, request_timestamps, ret, db_matches,
                   ai_result, ai_calls>>

(* "Fallback to AI-only": what the second call returns is returned.        *)
Fallback(c) ==
    /\ fpc = "fallback"
    /\ pc[c] = "done"
    /\ fused' = result[c]
    /\ fpc' = "done"
    /\ Returns(c)
    /\ UNCHANGED <<now, token_usage_history, request_timestamps, ret, db_matches,
                   ai_result, ai_calls>>

----------------------------------------------------------------------------
(* Inputs *)

ApiErrors == {"APIConnectionError", "APITimeoutError"}

(* Response texts: every string of at most MaxTextLen characters.          *)
MaxTextLen == 4
Texts == UNION {[1 .. n -> TextChars] : n \in 0 .. MaxTextLen}

RawItemTypes ==
    {<<>>, <<None>>} \cup
    {<<s>> : s \in {s_minifigure, s_minifig, s_figure, s_set, s_part, s_parts,
                    s_piece, s_pieces, s_MiniFig, s_SET, s_vehicle}}

RawConditions ==
    {<<>>, <<None>>} \cup
    {<<s>> : s \in {s_new, s_mint, s_used, s_used_complete, s_complete,
                    s_used_incomplete, s_incomplete, s_damaged, s_worn,
                    s_Mint, s_WORN, s_excellent}}

(* One object of "identified_items"; the keys the model does not vary are  *)
(* absent.                                                                 *)
ItemData(item_type, condition, name) ==
    [item_type |-> item_type, condition |-> condition, name |-> name,
     item_number |-> <<>>, year_released |-> <<>>, theme |-> <<>>,
     category |-> <<>>, pieces |-> <<>>]

OneItem ==
    {ItemData(t, <<s_used>>, <<s_figure>>) : t \in RawItemTypes} \cup
    {ItemData(<<s_set>>, k, <<>>) : k \in RawConditions}

NextItem ==
    {ItemData(<<s_parts>>, <<s_Mint>>, <<s_piece>>),
     ItemData(<<s_vehicle>>, <<None>>, <<None>>),
     ItemData(<<None>>, <<s_excellent>>, <<>>)}

ItemLists ==
    {<<>>} \cup {<<d>> : d \in OneItem} \cup {<<d, e>> : d \in OneItem, e \in NextItem}

GoodUsed == <<"Good used condition">>

ResultData(confidence_score, identified_items, description, condition_assessment) ==
    [confidence_score |-> confidence_score,
     identified_items |-> identified_items,
     description |-> description,
     condition_assessment |-> condition_assessment]

(* What the decoded object can hold.                                       *)
Data ==
    {ResultData(<<75>>, items, <<s_set>>, <<GoodUsed>>) : items \in ItemLists}
    \cup
    {ResultData(k, items, d, a) :
        k \in {<<>>, <<60>>, <<150>>},
        items \in {<<>>, <<ItemData(<<>>, <<>>, <<s_figure>>)>>},
        d \in {<<>>, <<s_set>>},
        a \in {<<>>, <<GoodUsed>>}}

(* A text that holds no JSON object is decoded to nothing.                 *)
NoData == ResultData(<<>>, <<>>, <<>>, <<>>)

HasJsonObject(response_text) ==
    /\ find(response_text, "{") >= 0
    /\ rfind(response_text, "}") + 1 > find(response_text, "{")
    /\ IsJsonObject(slice(response_text, find(response_text, "{"),
                          rfind(response_text, "}") + 1))

DataOf(response_text) == IF HasJsonObject(response_text) THEN Data ELSE {NoData}

(* Descriptors and histograms of images.  The SIFT sets give ratios of 0,  *)
(* one half and 1 against each other, the ORB sets too; the histograms     *)
(* correlate at 1, 0.5, -0.5 and -1.                                       *)
SiftDescriptors == {<<0>>, <<0, 10>>, <<3, 5>>, <<4, 4>>}
OrbDescriptors == {<<0>>, <<0, 100>>, <<10, 170>>}
Histograms == {<<1, 2, 3>>, <<1, 3, 2>>, <<3, 2, 1>>}

(* Every features dict over them, {} and partly filled ones included.      *)
FeatureSets ==
    {Features(s, o, h) :
        s \in {<<>>} \cup {<<d>> : d \in SiftDescriptors},
        o \in {<<>>} \cup {<<d>> : d \in OrbDescriptors},
        h \in {<<>>} \cup {<<d>> : d \in Histograms}}

(* Rows of the minifigures table, in the order the query returns them.     *)
Minifigures ==
    <<[id |-> 1, item_number |-> <<"cty001">>, name |-> <<"P", "o", "l", "i", "c", "e", " ", "O", "f", "f", "i", "c", "e", "r">>,
       theme |-> <<"City">>, year_released |-> <<"2020">>],
      [id |-> 2, item_number |-> <<"cty002">>, name |-> <<"R", "o", "b", "o", "t">>,
       theme |-> <<"City">>, year_released |-> None],
      [id |-> 3, item_number |-> <<"cas001">>, name |-> <<"W", "a", "r", "r", "i", "o", "r">>,
       theme |-> <<"Castle">>, year_released |-> <<"1999">>]>>

(* The file system.  Against query.jpg the reference images score, in      *)
(* hundredths: same.jpg 100, edges.jpg 80, flat.jpg 60, sift.jpg 40,       *)
(* weak.jpg 35, colour.jpg 30 and faint.jpg 20.                            *)
Files ==
    ("missing.jpg" :> Image(FALSE, FALSE, NoFeatures))
    @@ ("corrupt.jpg" :> Image(TRUE, FALSE, NoFeatures))
    @@ ("query.jpg" :> Image(TRUE, TRUE, Features(<<<<0, 10>>>>, <<<<0, 100>>>>, <<<<1, 2, 3>>>>)))
    @@ ("same.jpg" :> Image(TRUE, TRUE, Features(<<<<0, 10>>>>, <<<<0, 100>>>>, <<<<1, 2, 3>>>>)))
    @@ ("edges.jpg" :> Image(TRUE, TRUE, Features(<<<<3, 5>>>>, <<<<0, 100>>>>, <<<<1, 2, 3>>>>)))
    @@ ("flat.jpg" :> Image(TRUE, TRUE, Features(<<>>, <<<<0, 100>>>>, <<<<1, 2, 3>>>>)))
    @@ ("sift.jpg" :> Image(TRUE, TRUE, Features(<<<<0, 10>>>>, <<>>, <<<<3, 2, 1>>>>)))
    @@ ("weak.jpg" :> Image(TRUE, TRUE, Features(<<<<3, 5>>>>, <<>>, <<<<1, 3, 2>>>>)))
    @@ ("colour.jpg" :> Image(TRUE, TRUE, Features(<<>>, <<>>, <<<<1, 2, 3>>>>)))
    @@ ("faint.jpg" :> Image(TRUE, TRUE, Features(<<<<3, 5>>>>, <<>>, <<<<3, 2, 1>>>>)))

(* The minifigures table with the given image_path column.                 *)
Table(image_paths) ==
    [i \in 1 .. Len(Minifigures) |->
        [id |-> Minifigures[i].id,
         item_number |-> Minifigures[i].item_number,
         name |-> Minifigures[i].name,
         theme |-> Minifigures[i].theme,
         year_released |-> Minifigures[i].year_released,
         image_path |-> image_paths[i]]]

(* The tables of the fused request: every row has an image that can be     *)
(* read.                                                                   *)
FusionTables ==
    {Table(image_paths) :
        image_paths \in [1 .. 3 -> {<<"faint.jpg">>, <<"weak.jpg">>, <<"sift.jpg">>, <<"same.jpg">>}]}

(* limit=20 of the call in step 1, scaled to the table.                    *)
FusionLimit == 2

(* What the AI answers to the fused request: items with and without a      *)
(* name, a name that is part of a match's name and one that holds it.      *)
FusionNames == {<<>>, <<<<"P", "O", "L", "I", "C", "E">>>>, <<<<"R", "o", "b", "o", "t", " ", "A", "r", "m">>>>}
FusionItems == {ItemData(<<s_minifigure>>, k, n) : k \in {<<s_new>>, <<s_worn>>}, n \in FusionNames}
FusionItemLists ==
    {<<>>} \cup {<<d>> : d \in FusionItems}
    \cup {<<ItemData(<<s_minifigure>>, <<s_new>>, <<<<"P", "O", "L", "I", "C", "E">>>>),
             ItemData(<<s_minifigure>>, <<s_used>>, n)>> : n \in FusionNames}
FusionDescriptions == {<<<<>>>>, <<<<"Two figures">>>>, <<<<"Collection of", " figures">>>>}
FusionTexts == {<<"{", "m", "}">>, <<"x">>}
FusionData ==
    {ResultData(<<75>>, items, d, <<GoodUsed>>) :
        items \in FusionItemLists, d \in FusionDescriptions}
    \cup {ResultData(<<150>>, <<ItemData(<<s_minifigure>>, <<s_new>>, <<<<"P", "O", "L", "I", "C", "E">>>>)>>,
                      <<<<"Two figures">>>>, <<GoodUsed>>)}

----------------------------------------------------------------------------
(* Specifications *)

CallersIdle ==
    /\ pc = [c \in Callers |-> "idle"]
    /\ est = [c \in Callers |-> 0]
    /\ wait_time = [c \in Callers |-> 0]
    /\ wake_at = [c \in Callers |-> 0]
    /\ sleeps = [c \in Callers |-> 0]
    /\ recorded = [c \in Callers |-> 0]
    /\ raised = [c \in Callers |-> "none"]
    /\ message = [c \in Callers |-> <<>>]
    /\ result = [c \in Callers |-> <<>>]

FusionIdle ==
    /\ fpc = "start"
    /\ db_matches = <<>>
    /\ ai_result = <<>>
    /\ ai_calls = 0
    /\ fused = <<>>

Init ==
    /\ now = 0
    /\ token_usage_history = <<>>
    /\ request_timestamps = <<>>
    /\ ret = NoReturn
    /\ CallersIdle
    /\ FusionIdle

Next ==
    \/ Tick
    \/ \E e \in CallerEstimates : CanMakeRequest(e)
    \/ \E e \in CallerEstimates : CalculateWaitTime(e)
    \/ \E i \in InputTokenValues, o \in OutputTokenValues : RecordUsage(i, o)
    \/ GetUsageStats

Spec == Init /\ [][Next]_vars

(* Tasks sharing the limiter, each identifying one image after another.    *)
CallerTexts == {<<"{", "m", "}">>}
CallerData == {ResultData(<<75>>, <<ItemData(<<s_set>>, <<s_new>>, <<s_figure>>)>>,
                          <<s_set>>, <<GoodUsed>>)}

NextCallers ==
    \/ Tick
    \/ \E c \in Callers, e \in CallerEstimates, readable \in BOOLEAN : Begin(c, e, readable)
    \/ \E c \in Callers : Wake(c)
    \/ \E c \in Callers : ApiFail(c, "APITimeoutError")
    \/ \E c \in Callers :
           /\ pc[c] = "calling"
           /\ \E i \in InputTokenValues, response_text \in CallerTexts :
                  \E data \in (IF HasJsonObject(response_text) THEN CallerData ELSE {NoData}) :
                      ApiReply(c, i, 0, response_text, data)
    \/ \E c \in Callers : Return(c)

SpecCallers == Init /\ [][NextCallers]_vars

(* The clock runs, the event loop resumes every task whose sleep is over   *)
(* (ready tasks are resumed in turn, however often the loop is busy in     *)
(* between), and a call to the vision service comes back.                  *)
ApiReturns(c) ==
    \/ ApiFail(c, "APITimeoutError")
    \/ /\ pc[c] = "calling"
       /\ \E i \in InputTokenValues, response_text \in CallerTexts :
              \E data \in (IF HasJsonObject(response_text) THEN CallerData ELSE {NoData}) :
                  ApiReply(c, i, 0, response_text, data)

SpecCallersFair ==
    /\ SpecCallers
    /\ WF_vars(Tick)
    /\ \A c \in Callers : SF_vars(Wake(c))
    /\ \A c \in Callers : WF_vars(ApiReturns(c))

(* One task alone on the limiter, identifying one image after another:    *)
(* each request waits for capacity, calls, and records what the call       *)
(* reports, which may differ from what was estimated.  Time may pass at    *)
(* any moment, during the call as well.                                    *)
NextSequential ==
    \/ Tick
    \/ \E e \in CallerEstimates, readable \in BOOLEAN : Begin(1, e, readable)
    \/ Wake(1)
    \/ ApiFail(1, "APITimeoutError")
    \/ /\ pc[1] = "calling"
       /\ \E i \in InputTokenValues, response_text \in CallerTexts :
              \E data \in (IF HasJsonObject(response_text) THEN CallerData ELSE {NoData}) :
                  ApiReply(1, i, 0, response_text, data)
    \/ Return(1)

SpecSequential == Init /\ [][NextSequential]_vars

(* One task identifying one image, over every response.                    *)
InitVision ==
    /\ now = 0
    /\ \E h \in {<<>>, <<TokenUsage(0, 3, 0)>>} :
           /\ token_usage_history = h
           /\ request_timestamps = [i \in 1 .. Len(h) |-> h[i].timestamp]
    /\ ret = NoReturn
    /\ CallersIdle
    /\ FusionIdle

NextVision ==
    \/ pc[1] \in {"idle", "sleeping"} /\ Tick
    \/ \E e \in CallerEstimates, readable \in BOOLEAN : Begin(1, e, readable)
    \/ Wake(1)
    \/ \E e \in ApiErrors : ApiFail(1, e)
    \/ /\ pc[1] = "calling"
       /\ \E response_text \in Texts :
              \E data \in DataOf(response_text) : ApiReply(1, est[1], 0, response_text, data)

SpecVision == InitVision /\ [][NextVision]_vars

(* One fused request, run by task 1.                                       *)
(* The clock is followed only while the task sleeps: the time that passes  *)
(* elsewhere changes nothing the request computes.                         *)
NextFusion ==
    \/ \E query_image_path \in {"query.jpg", "corrupt.jpg"}, table \in FusionTables :
           FindMatches(1, query_image_path, Returned(table), Files, FusionLimit)
    \/ pc[1] = "sleeping" /\ Tick
    \/ /\ fpc \in {"analysing", "fallback"}
       /\ \E e \in CallerEstimates, readable \in BOOLEAN : Begin(1, e, readable)
    \/ Wake(1)
    \/ ApiFail(1, "APITimeoutError")
    \/ /\ pc[1] = "calling"
       /\ \E response_text \in FusionTexts :
              \E data \in (IF HasJsonObject(response_text) THEN FusionData ELSE {NoData}) :
                  ApiReply(1, est[1], 0, response_text, data)
    \/ Combine(1)
    \/ Fallback(1)

SpecFusion == Init /\ [][NextFusion]_vars

(* match_features over every pair of features dicts.                       *)
NextSimilarity ==
    \E query_features \in FeatureSets, database_features \in FeatureSets :
        MatchFeatures(query_features, database_features)

SpecSimilarity == Init /\ [][NextSimilarity]_vars

(* estimate_image_tokens over file sizes from 0 bytes to beyond the 5 MB   *)
(* at which the size factor is capped: every 64 KiB, and the sizes either  *)
(* side of the first increment, of the 4000 cap and of the 5 MB cap.       *)
MaxImageSteps == 100

ImageSizes ==
    {k * 64 * 1024 : k \in 0 .. MaxImageSteps}
        \cup {1, 1398, 1399, 3495253, 3495254, 5 * 1024 * 1024 - 1, 5 * 1024 * 1024 + 1}

NextEstimate ==
    \E image_size_bytes \in ImageSizes : EstimateImageTokens(image_size_bytes)

SpecEstimate == Init /\ [][NextEstimate]_vars

(* find_matches over tables whose rows have no image_path, an empty one,   *)
(* a file that is missing or cannot be decoded, or a reference image; over *)
(* a table that cannot be read; over query images that can and cannot be   *)
(* read; and over every limit from 0 to one more than the rows.            *)
MaxLimit == 4

RankerPaths ==
    {<<>>, <<"">>, <<"missing.jpg">>, <<"corrupt.jpg">>, <<"same.jpg">>, <<"edges.jpg">>,
     <<"flat.jpg">>, <<"sift.jpg">>, <<"colour.jpg">>, <<"faint.jpg">>}

RankerTables == {Table(image_paths) : image_paths \in [1 .. 3 -> RankerPaths]}

RankerDatabases == {Returned(table) : table \in RankerTables} \cup {Raised("OperationalError")}

RankerQueries == {"query.jpg", "sift.jpg", "missing.jpg", "corrupt.jpg"}

NextRanker ==
    \E query_image_path \in RankerQueries, database \in RankerDatabases, limit \in 0 .. MaxLimit :
        CallFindMatches(query_image_path, database, Files, limit)

SpecRanker == Init /\ [][NextRanker]_vars

----------------------------------------------------------------------------
(* What the claims speak of: the records that have not expired at "now",   *)
(* found by looking at every record rather than by popping from the left.  *)

UnexpiredUsage ==
    SelectSeq(token_usage_history, LAMBDA u : u.timestamp >= now - window_seconds)

UnexpiredRequests ==
    SelectSeq(request_timestamps, LAMBDA ts : ts >= now - window_seconds)

CanProceed(e) ==
    /\ SumInput(UnexpiredUsage) + e <= max_input_tokens_per_minute
    /\ Len(UnexpiredRequests) < max_requests_per_minute

(* C1: can_make_request(e) is true exactly when the input tokens of the    *)
(* unexpired records plus e are within max_input_tokens_per_minute and     *)
(* fewer than max_requests_per_minute requests are unexpired, for every    *)
(* estimate in every reachable state and for the value a call returned.    *)
C1_CanProceedIff ==
    /\ \A e \in Estimates :
           can_make_request(token_usage_history, request_timestamps, now, e)
               <=> CanProceed(e)
    /\ ret.op = "can_make_request" => (ret.val <=> CanProceed(ret.arg))

(* A call answered TRUE with records in the window, while a larger         *)
(* estimate would be refused at the same moment.                           *)
C1_Witness ==
    /\ ret.op = "can_make_request"
    /\ ret.val = TRUE
    /\ UnexpiredRequests # <<>>
    /\ \E e \in Estimates : ~CanProceed(e)

(* C2: while max_requests_per_minute records are unexpired every check is  *)
(* refused, and once every record kept is older than the window every      *)
(* estimate up to max_input_tokens_per_minute is accepted again.           *)
C2_WindowRollover ==
    /\ Len(UnexpiredRequests) >= max_requests_per_minute =>
           \A e \in Estimates :
               ~can_make_request(token_usage_history, request_timestamps, now, e)
    /\ ( /\ \A i \in DOMAIN request_timestamps :
                now > request_timestamps[i] + window_seconds
         /\ \A i \in DOMAIN token_usage_history :
                now > token_usage_history[i].timestamp + window_seconds ) =>
           \A e \in 0 .. max_input_tokens_per_minute :
               can_make_request(token_usage_history, request_timestamps, now, e)

(* Exactly max_requests_per_minute records, made within one window, all of *)
(* them now older than the window (and not yet pruned), and the check      *)
(* passes again.                                                           *)
C2_Witness ==
    /\ Len(request_timestamps) = max_requests_per_minute
    /\ request_timestamps[Len(request_timestamps)] - request_timestamps[1]
           <= window_seconds
    /\ now > request_timestamps[Len(request_timestamps)] + window_seconds
    /\ can_make_request(token_usage_history, request_timestamps, now,
                        max_input_tokens_per_minute)

(* C3: calculate_wait_time(e) is between 0 and window_seconds + 1, and is  *)
(* positive whenever the check is refused while a record is unexpired.     *)
C3_BoundedWait ==
    /\ \A e \in Estimates :
           LET w == calculate_wait_time(token_usage_history, request_timestamps, now, e)
           IN  /\ 0 <= w
               /\ w <= window_seconds + 1
               /\ (~CanProceed(e) /\ (UnexpiredUsage # <<>> \/ UnexpiredRequests # <<>>))
                      => w > 0
    /\ ret.op = "calculate_wait_time" =>
           /\ 0 <= ret.val
           /\ ret.val <= window_seconds + 1
           /\ (~CanProceed(ret.arg) /\ UnexpiredRequests # <<>>) => ret.val > 0

(* After max_requests_per_minute records the check of estimate 0 is        *)
(* refused and the wait returned is positive.                              *)
C3_Witness ==
    /\ Len(UnexpiredRequests) = max_requests_per_minute
    /\ ~can_make_request(token_usage_history, request_timestamps, now, 0)
    /\ ret.op = "calculate_wait_time"
    /\ ret.val > 0

(* C4: the check and the record are not one step.  A task that did not     *)
(* sleep holds the loop from its check to its record, so the check still   *)
(* passes when it calls; a task that slept calls without a second check,   *)
(* which is how the budget is overshot (C4_Witness).                       *)
C4_CheckHoldsOnlyWithoutSleep ==
    \A c \in Callers :
        (pc[c] = "calling" /\ sleeps[c] = 0) =>
            can_make_request(token_usage_history, request_timestamps, now, est[c])

(* Both tasks were told to wait, woke, called and recorded what they had   *)
(* estimated, and the unexpired input tokens or requests exceed the        *)
(* maximum.                                                                *)
C4_Witness ==
    /\ \A c \in Callers :
           /\ pc[c] = "done"
           /\ sleeps[c] = 1
           /\ recorded[c] = 1
           /\ message[c][1].input_tokens = est[c]
    /\ \A c, d \in Callers : wake_at[c] = wake_at[d]
    /\ \/ SumInput(UnexpiredUsage) > max_input_tokens_per_minute
       \/ Len(UnexpiredRequests) > max_requests_per_minute

(* C5: wait_for_capacity computes the wait once, sleeps at most once, for  *)
(* that time and only when it is positive, appends no record, goes on to   *)
(* the call when the sleep is over whatever the limiter then says, and     *)
(* every sleep ends.                                                       *)
C5_SingleWait ==
    /\ [](\A c \in Callers :
            /\ sleeps[c] <= 1
            /\ pc[c] = "sleeping" => (sleeps[c] = 1 /\ wait_time[c] > 0 /\ recorded[c] = 0)
            /\ pc[c] = "calling" =>
                   (sleeps[c] = (IF wait_time[c] > 0 THEN 1 ELSE 0) /\ recorded[c] = 0))
    /\ [][\A c \in Callers :
            /\ (pc[c] = "idle" /\ pc'[c] \in {"sleeping", "calling"}) =>
                   /\ wait_time'[c] = calculate_wait_time(token_usage_history,
                                          request_timestamps, now, est'[c])
                   /\ pc'[c] = "sleeping" => wake_at'[c] = now + wait_time'[c]
            /\ (pc'[c] # pc[c] /\ pc'[c] \in {"sleeping", "calling"}) =>
                   /\ Len(token_usage_history') <= Len(token_usage_history)
                   /\ Len(request_timestamps') <= Len(request_timestamps)
            /\ (pc[c] = "sleeping" /\ pc'[c] # "sleeping") =>
                   /\ pc'[c] = "calling"
                   /\ now >= wake_at[c]
                   /\ wait_time'[c] = wait_time[c]]_vars
    /\ \A c \in Callers : (pc[c] = "sleeping") ~> (pc[c] = "calling")

(* A task that slept is at the call although the limiter would refuse its  *)
(* estimate now.                                                           *)
C5_Witness ==
    \E c \in Callers :
        /\ pc[c] = "calling"
        /\ sleeps[c] = 1
        /\ ~can_make_request(token_usage_history, request_timestamps, now, est[c])

----------------------------------------------------------------------------
(* The vision client, for the task that identifies one image.              *)

Response(c) == message[c][1]
Result(c) == result[c][1]

(* C6: identify_lego_items always ends with a result, and after a failure  *)
(* of reading the image, of the vision call (connection, timeout) or of    *)
(* anything else inside the try block the result has confidence 0, no      *)
(* items, a description holding the error text and the condition           *)
(* assessment "Could not assess condition due to error".                   *)
C6_NeverRaises ==
    \A c \in Callers :
        pc[c] = "done" =>
            /\ Len(result[c]) = 1
            /\ raised[c] # "none" =>
                   /\ Result(c).confidence_score = 0
                   /\ Result(c).identified_items = <<>>
                   /\ \E i \in DOMAIN Result(c).description :
                          Result(c).description[i] = raised[c]
                   /\ Result(c).condition_assessment
                          = <<"Could not assess condition due to error">>

(* The vision call failed after the task had waited on the limiter.        *)
C6_Witness ==
    /\ pc[1] = "done"
    /\ sleeps[1] = 1
    /\ raised[1] \in ApiErrors
    /\ Result(1).confidence_score = 0

(* The claim's "no well-formed embedded JSON object".                      *)
NoBraces(text) == \A i \in DOMAIN text : text[i] \notin {"{", "}"}

NoWellFormedJson(text) ==
    \/ NoBraces(text)
    \/ (\E i \in DOMAIN text : text[i] = "{") /\ ~(\E i \in DOMAIN text : text[i] = "}")
    \/ /\ \E i \in DOMAIN text : text[i] = "{"
       /\ \E i \in DOMAIN text : text[i] = "}"
       /\ ~IsJsonObject(slice(text, find(text, "{"), rfind(text, "}") + 1))

FirstChars(text, n) == [i \in 1 .. Min(Len(text), n) |-> text[i]]

(* C7: a response text with no well-formed embedded JSON object gives      *)
(* confidence 0.3, no items and the first characters of the text as the    *)
(* description.                                                            *)
C7_ParseFailureIsLowConfidence ==
    \A c \in Callers :
        (pc[c] = "done" /\ message[c] # <<>> /\ NoWellFormedJson(Response(c).text)) =>
            /\ Result(c).confidence_score = 30
            /\ Result(c).identified_items = <<>>
            /\ Result(c).description = FirstChars(Response(c).text, DescriptionLimit)

(* C8: a response text without "{" and without "}" gives confidence 0.3,   *)
(* no items, the first characters of the text as the description and       *)
(* "Could not parse detailed assessment", and the call is in the usage     *)
(* history.                                                                *)
C8_NoBracesFallback ==
    \A c \in Callers :
        (pc[c] = "done" /\ message[c] # <<>> /\ NoBraces(Response(c).text)) =>
            /\ Result(c).confidence_score = 30
            /\ Result(c).identified_items = <<>>
            /\ Result(c).description = FirstChars(Response(c).text, DescriptionLimit)
            /\ Result(c).condition_assessment = <<"Could not parse detailed assessment">>
            /\ recorded[c] = 1
            /\ token_usage_history # <<>>
            /\ token_usage_history[Len(token_usage_history)]
                   = TokenUsage(now, Response(c).input_tokens, Response(c).output_tokens)
            /\ request_timestamps # <<>>
            /\ request_timestamps[Len(request_timestamps)] = now

(* A text without braces that is longer than the description keeps.        *)
C8_Witness ==
    /\ pc[1] = "done"
    /\ message[1] # <<>>
    /\ NoBraces(Response(1).text)
    /\ Len(Response(1).text) > DescriptionLimit
    /\ Len(Result(1).description) = DescriptionLimit
    /\ recorded[1] = 1

(* The claim's tables, on lower-case values; every other value, absent and *)
(* null included, gives the default.                                       *)
ClaimedItemType(field) ==
    LET v == IF field = <<>> \/ field = <<None>> THEN <<>> ELSE lower(field[1])
    IN  IF v \in {s_minifigure, s_minifig, s_figure} THEN s_minifigure
        ELSE IF v = s_set THEN s_set
        ELSE IF v \in {s_part, s_parts, s_piece, s_pieces} THEN s_part
        ELSE s_minifigure

ClaimedCondition(field) ==
    LET v == IF field = <<>> \/ field = <<None>> THEN <<>> ELSE lower(field[1])
    IN  IF v \in {s_new, s_mint} THEN s_new
        ELSE IF v \in {s_used, s_used_complete, s_complete} THEN s_used_complete
        ELSE IF v \in {s_used_incomplete, s_incomplete} THEN s_used_incomplete
        ELSE IF v \in {s_damaged, s_worn} THEN s_damaged
        ELSE s_used_complete

ValidConfidence(data) ==
    data.confidence_score = <<>> \/ data.confidence_score[1] \in 0 .. 100

(* C9: when the JSON decodes (and the confidence is one an                 *)
(* IdentificationResult accepts), every item of the response is produced,  *)
(* with its type and condition given by the claim's tables and defaults.   *)
C9_ItemsNormalized ==
    \A c \in Callers :
        ( /\ pc[c] = "done"
          /\ message[c] # <<>>
          /\ HasJsonObject(Response(c).text)
          /\ ValidConfidence(Response(c).data) ) =>
            /\ Len(Result(c).identified_items) = Len(Response(c).data.identified_items)
            /\ \A i \in DOMAIN Response(c).data.identified_items :
                   /\ Result(c).identified_items[i].item_type
                          = ClaimedItemType(Response(c).data.identified_items[i].item_type)
                   /\ Result(c).identified_items[i].condition
                          = ClaimedCondition(Response(c).data.identified_items[i].condition)

----------------------------------------------------------------------------
(* C10: the items of the fused result are the matches of similarity 0.4    *)
(* and more, one item per match in the order of their rank, whenever there *)
(* is such a match; when there is none they are the items of the AI        *)
(* result, the same items in the same order.                               *)
Kept == SelectSeq(db_matches, LAMBDA match : match.confidence >= 40)

ItemOfMatch(item, match) ==
    /\ item.item_number = match.item_number
    /\ item.name = match.name
    /\ item.theme = match.theme
    /\ item.year_released = match.year_released

C10_FusedItemSelection ==
    fpc = "done" =>
        LET identified_items == fused[1].identified_items
        IN  IF Kept # <<>>
            THEN /\ Len(identified_items) = Len(Kept)
                 /\ \A i \in 1 .. Len(Kept) : ItemOfMatch(identified_items[i], Kept[i])
            ELSE identified_items = ai_result[1].identified_items

----------------------------------------------------------------------------
(* C11: with a match of similarity 0.4 or more the confidence of the fused *)
(* result is min(1.0, mean of the kept similarities + 0.2); with no such   *)
(* match it is the confidence of the AI result, with nothing added.        *)
KeptScores == [i \in 1 .. Len(Kept) |-> Kept[i].confidence]

C11_FusedConfidence ==
    fpc = "done" =>
        IF Kept # <<>>
        THEN fused[1].confidence_score = Min(100, (sum(KeptScores) \div Len(Kept)) + 20)
        ELSE fused[1].confidence_score = ai_result[1].confidence_score

----------------------------------------------------------------------------
(* C12: the confidence of the result the fused request returns is in       *)
(* [0, 1], also when the mean of the kept similarities plus 0.2 is more    *)
(* than 1.0.                                                               *)
C12_FusedConfidenceInRange ==
    fpc = "done" =>
        /\ fused[1].confidence_score >= 0
        /\ fused[1].confidence_score <= 100

(* A combined result whose kept matches have a mean above 0.8.             *)
C12_Witness ==
    /\ fpc = "done"
    /\ ai_calls = 1
    /\ Kept # <<>>
    /\ (sum(KeptScores) \div Len(Kept)) + 20 > 100
    /\ fused[1].confidence_score = 100

----------------------------------------------------------------------------
(* C13: an exception raised while the fused result is computed does not    *)
(* leave the fused request: the request ends with a result, and that       *)
(* result is the IdentificationResult the AI identifier produced for the   *)
(* image in the call of the except branch, with the same confidence,       *)
(* items, description and condition assessment, and nothing of the matches *)
(* in it.                                                                  *)
C13_FallbackIsAiOnly ==
    /\ [](fpc \in {"start", "analysing", "fallback", "done"})
    /\ [](fpc = "done" => fused # <<>>)
    /\ [][(fpc = "fallback" /\ fpc' = "done") =>
              /\ pc[1] = "done"
              /\ result[1] # <<>>
              /\ fused' = result[1]]_vars

(* A request whose _combine_results raised and which has returned.         *)
C13_Witness ==
    /\ fpc = "done"
    /\ ai_calls = 2
    /\ fused # <<>>
    /\ Kept # <<>>

----------------------------------------------------------------------------
(* C18 as stated: the similarity of any features with themselves is in     *)
(* [0.9, 1.0], whichever of the three descriptors they hold.               *)
SelfComparison ==
    /\ ret.op = "match_features"
    /\ ret.arg[1] = ret.arg[2]

C18_SelfSimilarityAnyFeatures ==
    SelfComparison => (ret.val >= 90 /\ ret.val <= 100)

(* C18, amended: the similarity of features with themselves is in          *)
(* [0.9, 1.0] when all three descriptors are present and there are at      *)
(* least two SIFT descriptors, no two of them equal.                       *)
Complete(features) ==
    /\ features.sift_descriptors # <<>>
    /\ features.orb_descriptors # <<>>
    /\ features.color_histogram # <<>>
    /\ Len(features.sift_descriptors[1]) >= 2
    /\ \A i, j \in 1 .. Len(features.sift_descriptors[1]) :
           i # j => features.sift_descriptors[1][i] # features.sift_descriptors[1][j]

C18_SelfSimilarityComplete ==
    (SelfComparison /\ Complete(ret.arg[1])) => (ret.val >= 90 /\ ret.val <= 100)

C18_Witness ==
    /\ SelfComparison
    /\ Complete(ret.arg[1])
    /\ ret.val = 100

----------------------------------------------------------------------------
(* C19: the similarity of any two features dicts is in [0, 1].             *)
C19_SimilarityInRange ==
    ret.op = "match_features" => (ret.val >= 0 /\ ret.val <= 100)

(* Two histograms that correlate negatively have been compared.            *)
C19_Witness ==
    /\ ret.op = "match_features"
    /\ ret.arg[1].color_histogram # <<>>
    /\ ret.arg[2].color_histogram # <<>>
    /\ compareHist(ret.arg[1].color_histogram[1], ret.arg[2].color_histogram[1]) < 0
    /\ ret.val >= 0


(* C20: estimate_image_tokens(0) is 1500, no call returns more than 4000,  *)
(* and of two calls in a row the one with the larger byte size does not    *)
(* return the smaller estimate.                                            *)
C20_EstimateImageTokens ==
    /\ [](ret.op = "estimate_image_tokens" =>
             /\ ret.val <= 4000
             /\ ret.arg = 0 => ret.val = 1500)
    /\ [][(ret.op = "estimate_image_tokens" /\ ret'.op = "estimate_image_tokens"
              /\ ret.arg <= ret'.arg) => ret.val <= ret'.val]_vars

(* A file larger than 5 MB has been estimated at exactly 4000.             *)
C20_Witness ==
    /\ ret.op = "estimate_image_tokens"
    /\ ret.arg > 5 * 1024 * 1024
    /\ ret.val = 4000


(* The call of find_matches that has returned, and what its rows are worth *)
(* when each is looked at on its own.                                      *)
Ranked == ret.op = "find_matches"

Usable(image_path) ==
    /\ image_path # <<>>
    /\ image_path[1] # ""
    /\ Files[image_path[1]].exists
    /\ Files[image_path[1]].decodable

QueryReadable ==
    Files[ret.arg.query_image_path].exists /\ Files[ret.arg.query_image_path].decodable

Score(row) ==
    match_features(Files[ret.arg.query_image_path].features, Files[row.image_path[1]].features)

RankedRows ==
    IF ret.arg.database.exc = "none" THEN ret.arg.database.val[1] ELSE <<>>

(* C14: what find_matches returns is in non-increasing order of confidence *)
(* and no longer than the limit.                                           *)
C14_SortedAndTruncated ==
    Ranked =>
        /\ Len(ret.val) <= ret.arg.limit
        /\ \A i, j \in 1 .. Len(ret.val) :
               i < j => ret.val[i].confidence >= ret.val[j].confidence

(* Three rows qualified, the limit of 2 cut one off, and the sort moved a   *)
(* later row in front of an earlier one.                                   *)
C14_Witness ==
    /\ Ranked
    /\ ret.arg.limit = 2
    /\ Len(ret.val) = 2
    /\ \A i \in 1 .. Len(RankedRows) : Usable(RankedRows[i].image_path) /\ Score(RankedRows[i]) > 30
    /\ ret.val[1].confidence > ret.val[2].confidence
    /\ ret.val[1].minifigure_id > ret.val[2].minifigure_id

(* C15: no two of the returned matches are of the same row of the table.   *)
C15_NoDuplicateRows ==
    Ranked =>
        \A i, j \in 1 .. Len(ret.val) :
            i # j => ret.val[i].minifigure_id # ret.val[j].minifigure_id

(* Three rows with the same image and the same score are all returned.     *)
C15_Witness ==
    /\ Ranked
    /\ Len(ret.val) = 3
    /\ \A i \in 1 .. 3 : ret.val[i].image_path = "same.jpg" /\ ret.val[i].confidence = 100

(* C16: every returned match scores more than 0.3, which is the score of   *)
(* its row, and its tier is exact from 0.8, similar from 0.6 and partial   *)
(* below.                                                                  *)
C16_ThresholdAndTier ==
    Ranked =>
        \A i \in 1 .. Len(ret.val) :
            /\ ret.val[i].confidence > 30
            /\ \E k \in 1 .. Len(RankedRows) :
                   /\ RankedRows[k].id = ret.val[i].minifigure_id
                   /\ Usable(RankedRows[k].image_path)
                   /\ Score(RankedRows[k]) = ret.val[i].confidence
            /\ ret.val[i].match_type =
                   (IF ret.val[i].confidence >= 80 THEN "exact"
                    ELSE IF ret.val[i].confidence >= 60 THEN "similar"
                    ELSE "partial")

(* Rows scoring exactly 0.8, 0.3 and 0.6: the first is returned as exact,  *)
(* the last as similar, and the one at 0.3 is not returned.                *)
C16_Witness ==
    /\ Ranked
    /\ ret.arg.limit = 3
    /\ Len(RankedRows) = 3
    /\ RankedRows[2].image_path = <<"colour.jpg">>
    /\ Score(RankedRows[2]) = 30
    /\ Len(ret.val) = 2
    /\ ret.val[1].confidence = 80 /\ ret.val[1].match_type = "exact"
    /\ ret.val[2].confidence = 60 /\ ret.val[2].match_type = "similar"

(* C17: find_matches returns a list whatever it is given: the empty list   *)
(* when the query image is missing or cannot be decoded or the table       *)
(* cannot be read; otherwise no match for a row whose image is absent,     *)
(* missing or undecodable, and every other row scoring more than 0.3 is    *)
(* returned with its score unless the limit cut it off behind matches that *)
(* score no less.                                                          *)
C17_UnreadableImagesSkipped ==
    Ranked =>
        /\ ~QueryReadable => ret.val = <<>>
        /\ ret.arg.database.exc # "none" => ret.val = <<>>
        /\ QueryReadable =>
               \A k \in 1 .. Len(RankedRows) :
                   IF ~Usable(RankedRows[k].image_path)
                   THEN \A i \in 1 .. Len(ret.val) : ret.val[i].minifigure_id # RankedRows[k].id
                   ELSE Score(RankedRows[k]) > 30 =>
                            \/ \E i \in 1 .. Len(ret.val) :
                                   /\ ret.val[i].minifigure_id = RankedRows[k].id
                                   /\ ret.val[i].confidence = Score(RankedRows[k])
                            \/ /\ Len(ret.val) = ret.arg.limit
                               /\ \A i \in 1 .. Len(ret.val) :
                                      ret.val[i].confidence >= Score(RankedRows[k])

(* The first row's file is missing, the second cannot be decoded, and the  *)
(* third is returned.                                                      *)
C17_Witness ==
    /\ Ranked
    /\ QueryReadable
    /\ Len(RankedRows) = 3
    /\ RankedRows[1].image_path = <<"missing.jpg">>
    /\ RankedRows[2].image_path = <<"corrupt.jpg">>
    /\ Len(ret.val) = 1
    /\ ret.val[1].minifigure_id = RankedRows[3].id

----------------------------------------------------------------------------
(* The limiter's stats, waits and record lifetimes.                        *)

(* h is what is left of g after records were taken from its front.         *)
IsSuffix(h, g) ==
    /\ Len(h) <= Len(g)
    /\ h = SubSeq(g, Len(g) - Len(h) + 1, Len(g))

(* C21: get_usage_stats only discards, from the front of the two deques,   *)
(* records that have expired; it does not move the clock; every            *)
(* can_make_request and calculate_wait_time answers after it what it would *)
(* have answered before it; and what it reports as remaining is            *)
(* max(0, maximum - current), never negative.                              *)
C21_StatsReadOnly ==
    /\ [][ret'.op = "get_usage_stats" =>
            /\ now' = now
            /\ IsSuffix(token_usage_history', token_usage_history)
            /\ IsSuffix(request_timestamps', request_timestamps)
            /\ \A i \in 1 .. (Len(token_usage_history) - Len(token_usage_history')) :
                   token_usage_history[i].timestamp < now - window_seconds
            /\ \A i \in 1 .. (Len(request_timestamps) - Len(request_timestamps')) :
                   request_timestamps[i] < now - window_seconds
            /\ \A e \in Estimates :
                   /\ can_make_request(token_usage_history', request_timestamps', now', e)
                        = can_make_request(token_usage_history, request_timestamps, now, e)
                   /\ calculate_wait_time(token_usage_history', request_timestamps', now', e)
                        = calculate_wait_time(token_usage_history, request_timestamps, now, e)]_vars
    /\ [](ret.op = "get_usage_stats" =>
            /\ ret.val.current_input_tokens = SumInput(UnexpiredUsage)
            /\ ret.val.current_requests = Len(UnexpiredRequests)
            /\ ret.val.input_tokens_remaining
                   = Max(0, max_input_tokens_per_minute - SumInput(UnexpiredUsage))
            /\ ret.val.requests_remaining
                   = Max(0, max_requests_per_minute - Len(UnexpiredRequests))
            /\ ret.val.input_tokens_remaining >= 0
            /\ ret.val.requests_remaining >= 0)

(* The stats were asked for while more was recorded than either maximum    *)
(* and after older records had expired: nothing remains, and the expired    *)
(* records are gone.                                                       *)
C21_Witness ==
    /\ ret.op = "get_usage_stats"
    /\ ret.val.current_input_tokens > max_input_tokens_per_minute
    /\ ret.val.input_tokens_remaining = 0
    /\ now > window_seconds
    /\ token_usage_history # <<>>

(* The timestamps of the unexpired records of both deques, and the oldest   *)
(* of them.                                                                *)
UnexpiredTimestamps ==
    {UnexpiredUsage[i].timestamp : i \in DOMAIN UnexpiredUsage}
        \cup {UnexpiredRequests[i] : i \in DOMAIN UnexpiredRequests}

OldestUnexpired == CHOOSE t \in UnexpiredTimestamps : \A u \in UnexpiredTimestamps : t <= u

ComputeWaitSeconds(e) ==
    IF CanProceed(e) THEN 0
    ELSE IF UnexpiredTimestamps = {} THEN 0
    ELSE (OldestUnexpired + window_seconds - now) + 1

(* C22: calculate_wait_time(e) is 0 when the check of e passes, 0 when it   *)
(* is refused and no record is unexpired, and otherwise the time until the *)
(* oldest unexpired record leaves the window plus one second, whichever    *)
(* limit refuses; for every estimate in every reachable state and for the  *)
(* value a call returned.                                                  *)
C22_WaitValue ==
    /\ \A e \in Estimates :
           calculate_wait_time(token_usage_history, request_timestamps, now, e)
               = ComputeWaitSeconds(e)
    /\ ret.op = "calculate_wait_time" => ret.val = ComputeWaitSeconds(ret.arg)

(* A call was refused by the request limit alone, with records of two      *)
(* different ages in the window, and returned the wait for the older one;  *)
(* at the same moment an estimate above the token maximum is refused by    *)
(* the token limit with the same wait.                                     *)
C22_Witness ==
    /\ ret.op = "calculate_wait_time"
    /\ SumInput(UnexpiredUsage) + ret.arg <= max_input_tokens_per_minute
    /\ Len(UnexpiredRequests) >= max_requests_per_minute
    /\ UnexpiredRequests[1] < UnexpiredRequests[Len(UnexpiredRequests)]
    /\ ret.val = UnexpiredRequests[1] + window_seconds - now + 1
    /\ ret.val > 0

(* C23: both deques are in the order of their timestamps, none of which is *)
(* later than the clock; whatever is evaluated at a time counts the        *)
(* unexpired records only; and after a step of can_make_request,           *)
(* calculate_wait_time, record_usage or get_usage_stats (the steps that    *)
(* leave the clock as it is) no record older than the window is retained.  *)
C23_LifetimeBoundedByWindow ==
    /\ [](/\ \A i, j \in DOMAIN token_usage_history :
                i < j => token_usage_history[i].timestamp <= token_usage_history[j].timestamp
          /\ \A i, j \in DOMAIN request_timestamps :
                i < j => request_timestamps[i] <= request_timestamps[j]
          /\ \A i \in DOMAIN token_usage_history : token_usage_history[i].timestamp <= now
          /\ \A i \in DOMAIN request_timestamps : request_timestamps[i] <= now
          /\ _get_current_usage(token_usage_history, request_timestamps, now)
                = [input_tokens |-> SumInput(UnexpiredUsage),
                   output_tokens |-> SumOutput(UnexpiredUsage),
                   requests |-> Len(UnexpiredRequests)])
    /\ [][now' = now =>
            /\ \A i \in DOMAIN token_usage_history' :
                   token_usage_history'[i].timestamp >= now - window_seconds
            /\ \A i \in DOMAIN request_timestamps' :
                   request_timestamps'[i] >= now - window_seconds]_vars

(* After a call of get_usage_stats later than one window the deques hold   *)
(* records of two ages, the older exactly one window old and so still      *)
(* counted.                                                                *)
C23_Witness ==
    /\ ret.op = "get_usage_stats"
    /\ now > window_seconds
    /\ Len(token_usage_history) >= 2
    /\ token_usage_history[1].timestamp = now - window_seconds
    /\ token_usage_history[Len(token_usage_history)].timestamp > now - window_seconds
    /\ ret.val.current_requests = Len(request_timestamps)

(* A call that failed after the service had taken the request: the client  *)
(* gave up waiting for the answer.                                         *)
TokenConsumingFailure(c) == message[c] = <<>> /\ raised[c] = "APITimeoutError"

CallCompleted(c) ==
    pc[c] = "done" /\ (message[c] # <<>> \/ TokenConsumingFailure(c))

(* C24: when identify_lego_items is about to return after a call that gave *)
(* a response (parsed or not) or that failed after consuming tokens,       *)
(* record_usage has run exactly once in this request; it never runs twice. *)
C24_CompletedCallRecordedOnce ==
    \A c \in Callers :
        /\ recorded[c] <= 1
        /\ CallCompleted(c) => recorded[c] = 1

(* The two features dicts of a comparison, which of the three descriptors  *)
(* both hold, and the weights of those.                                    *)
Compared == ret.op = "match_features"

SharedSift == ret.arg[1].sift_descriptors # <<>> /\ ret.arg[2].sift_descriptors # <<>>
SharedOrb == ret.arg[1].orb_descriptors # <<>> /\ ret.arg[2].orb_descriptors # <<>>
SharedColor == ret.arg[1].color_histogram # <<>> /\ ret.arg[2].color_histogram # <<>>

SharedWeights ==
    (IF SharedSift THEN 40 ELSE 0) + (IF SharedOrb THEN 30 ELSE 0)
        + (IF SharedColor THEN 30 ELSE 0)

(* C25: the similarity is 0.4 of the SIFT score plus 0.3 of the ORB score   *)
(* plus 0.3 of the histogram score, over the descriptors both dicts hold,  *)
(* with the weights as they are: it is at most the sum of the weights of   *)
(* the shared descriptors, and 0 when none is shared.                      *)
C25_WeightedSumOverShared ==
    Compared =>
        /\ 100 * ret.val =
               (IF SharedSift
                THEN 40 * _match_sift_features(ret.arg[1].sift_descriptors[1],
                                               ret.arg[2].sift_descriptors[1])
                ELSE 0)
               + (IF SharedOrb
                  THEN 30 * _match_orb_features(ret.arg[1].orb_descriptors[1],
                                                ret.arg[2].orb_descriptors[1])
                  ELSE 0)
               + (IF SharedColor
                  THEN 30 * _match_color_histograms(ret.arg[1].color_histogram[1],
                                                    ret.arg[2].color_histogram[1])
                  ELSE 0)
        /\ ret.val <= SharedWeights
        /\ SharedWeights = 0 => ret.val = 0

(* Only the histogram is shared (one dict has no ORB descriptors, the other *)
(* no SIFT descriptors) and it is the same in both: the similarity is 0.3.  *)
C25_Witness ==
    /\ Compared
    /\ ~SharedSift /\ ~SharedOrb /\ SharedColor
    /\ ret.arg[1].sift_descriptors # <<>>
    /\ ret.arg[2].orb_descriptors # <<>>
    /\ ret.arg[1].color_histogram = ret.arg[2].color_histogram
    /\ ret.val = 30

----------------------------------------------------------------------------
(* The order of the steps of one fused request.                            *)

(* C26: _combine_results runs only when find_matches has returned and the  *)
(* awaited AI call has returned its result; it combines that result with   *)
(* the matches as find_matches returned them, which nothing changes         *)
(* afterwards; and nothing is combined or returned before.                 *)
C26_FusionAfterMatchingAndAnswer ==
    /\ [][(fpc # "analysing" /\ fpc' = "analysing") =>
              (fpc = "start" /\ ai_result' = <<>> /\ fused' = <<>>)]_vars
    /\ [][(db_matches' # db_matches) => (fpc = "start" /\ fpc' = "analysing")]_vars
    /\ [][(ai_result' # ai_result) =>
              /\ fpc = "analysing"
              /\ pc[1] = "done"
              /\ Len(result[1]) = 1
              /\ ai_result' = result[1]
              /\ db_matches' = db_matches]_vars
    /\ [](fused # <<>> => (fpc = "done" /\ ai_result # <<>>))
    /\ [](fpc = "start" => (ai_result = <<>> /\ fused = <<>>))

(* A fused result made of two matches and the answer of the one AI call,   *)
(* with the items of the matches and a confidence above the AI's.          *)
C26_Witness ==
    /\ fpc = "done"
    /\ Len(db_matches) = 2
    /\ ai_calls = 1
    /\ ai_result # <<>>
    /\ fused # <<>>
    /\ fused[1].identified_items # <<>>
    /\ fused[1].confidence_score > ai_result[1].confidence_score

----------------------------------------------------------------------------
(* One caller at a time.                                                   *)

(* C27: with one caller alone on the limiter and an estimate within        *)
(* max_input_tokens_per_minute, the check of the estimate passes when      *)
(* wait_for_capacity has returned and the call is being made, and when the *)
(* call has recorded what was estimated the unexpired input tokens are     *)
(* within max_input_tokens_per_minute.                                     *)
C27_CapacityAfterWait ==
    /\ (pc[1] = "calling" /\ est[1] <= max_input_tokens_per_minute) =>
           can_make_request(token_usage_history, request_timestamps, now, est[1])
    /\ (pc[1] = "done" /\ message[1] # <<>> /\ est[1] <= max_input_tokens_per_minute
            /\ message[1][1].input_tokens = est[1]
            /\ token_usage_history # <<>>
            /\ token_usage_history[Len(token_usage_history)].timestamp = now) =>
           SumInput(UnexpiredUsage) <= max_input_tokens_per_minute

(* C28: with one caller that waits for capacity before every call and      *)
(* records at most once after it, the unexpired request timestamps are    *)
(* never more than max_requests_per_minute.                                *)
C28_SequentialRequestsWithinMaximum ==
    Len(UnexpiredRequests) <= max_requests_per_minute

(* The caller was refused with max_requests_per_minute requests in the     *)
(* window and tokens to spare, slept once, called and recorded, and the    *)
(* window again holds max_requests_per_minute requests.                    *)
C28_Witness ==
    /\ pc[1] = "done"
    /\ sleeps[1] = 1
    /\ recorded[1] = 1
    /\ Len(UnexpiredRequests) = max_requests_per_minute
    /\ SumInput(UnexpiredUsage) + est[1] <= max_input_tokens_per_minute
    /\ request_timestamps[Len(request_timestamps)] = now

(* C29: one fused request makes at most one call to the vision service and *)
(* appends at most one usage record: the request never has a second call   *)
(* under way in its except branch, and the usage history, empty when the   *)
(* request starts, never holds two records.                                *)
C29_OneVisionCallPerFusedRequest ==
    /\ ~(fpc = "fallback" /\ pc[1] = "calling")
    /\ Len(token_usage_history) <= 1

(* C30: the two deques always have the same length and the same timestamp  *)
(* at every position, so the requests counted are the unexpired usage      *)
(* records: in what _get_current_usage counts and in what a call of        *)
(* get_usage_stats returned.                                               *)
C30_DequesInStep ==
    /\ Len(token_usage_history) = Len(request_timestamps)
    /\ \A i \in DOMAIN token_usage_history :
           token_usage_history[i].timestamp = request_timestamps[i]
    /\ _get_current_usage(token_usage_history, request_timestamps, now).requests
           = Len(UnexpiredUsage)
    /\ ret.op = "get_usage_stats" => ret.val.current_requests = Len(UnexpiredUsage)

(* With two records of different ages in the deques, the stats count two   *)
(* requests and the request timestamps are those of the usage records.     *)
C30_Witness ==
    /\ ret.op = "get_usage_stats"
    /\ ret.val.current_requests = 2
    /\ Len(token_usage_history) = 2
    /\ token_usage_history[1].timestamp > 0
    /\ token_usage_history[1].timestamp < token_usage_history[2].timestamp
    /\ request_timestamps = <<token_usage_history[1].timestamp, token_usage_history[2].timestamp>>

====
